---------------------------- MODULE Spec2Model ----------------------------
(***************************************************************************)
(* Model of the RAG retrieval engine of the chat application: the class    *)
(* AIService of src/src/hooks/useAdminStatus.ts (keyword extraction, the   *)
(* primary and the fallback document search, relevance scoring) and its    *)
(* caller generateResponse.                                                *)
(*                                                                         *)
(* A string is a sequence of one-character strings.  A document's content  *)
(* is a record [text, pad]: the characters of text followed by pad copies  *)
(* of FillChar, so that contents of 1000 and more characters are part of   *)
(* the model without being spelled out.                                    *)
(***************************************************************************)
EXTENDS Integers, Sequences, FiniteSets, TLC

\* ------------------------------------------------------------------ bounds
\* Largest limit a direct caller passes to retrieveRelevantDocuments.
MaxLimit == 2
\* Largest number of rows of the rag_documents table.
MaxStore == 2
\* Longest candidate sequence handed to the scorer on its own.
MaxCand == 3

\* ------------------------------------------------------- program constants
DefaultLimit == 5
BrevityLength == 1000
ScoreTitleQuery == 100
ScoreContentQuery == 50
ScoreTitleKeyword == 10
ScoreContentKeyword == 3
ScoreTagKeyword == 15
ScoreBrevity == 5
MaxKeywords == 10
MinKeywordLength == 2
MinFallbackWordLength == 3
OverFetch == 2

\* ----------------------------------------------------------------- strings
UpperChars == <<"A","B","C","D","E","F","G","H","I","J","K","L","M","N","O","P","Q","R","S","T","U","V","W","X","Y","Z">>
LowerChars == <<"a","b","c","d","e","f","g","h","i","j","k","l","m","n","o","p","q","r","s","t","u","v","w","x","y","z">>
DigitChars == <<"0","1","2","3","4","5","6","7","8","9">>

Range(s) == {s[i] : i \in DOMAIN s}

\* String.prototype.toLowerCase on the capital letters.
LowerOf ==
  [c \in Range(UpperChars) |-> LowerChars[CHOOSE i \in DOMAIN UpperChars : UpperChars[i] = c]]

\* String.prototype.toLowerCase on one character.
lowerChar(c) == IF c \in DOMAIN LowerOf THEN LowerOf[c] ELSE c

toLowerCase(s) == [i \in 1..Len(s) |-> lowerChar(s[i])]

\* The regular expression class \w: ASCII letters, digits and the underscore.
WordChars == Range(UpperChars) \cup Range(LowerChars) \cup Range(DigitChars) \cup {"_"}

isWordChar(c) == c \in WordChars

\* The regular expression class \s.
isSpaceChar(c) == c \in {" ", "\t", "\n", "\r"}

\* String.prototype.includes
includes(s, n) == \E i \in 0..(Len(s) - Len(n)) : SubSeq(s, i + 1, i + Len(n)) = n

\* .replace(/[^\w\s]/g, ' ')
removePunctuation(s) ==
  [i \in 1..Len(s) |-> IF isWordChar(s[i]) \/ isSpaceChar(s[i]) THEN s[i] ELSE " "]

\* .split(/\s+/): the pieces between the maximal runs of whitespace; a
\* leading or a trailing run leaves an empty piece, and "" splits to [""].
RECURSIVE splitFrom(_, _, _, _, _)
splitFrom(s, i, cur, inSpace, acc) ==
  IF i > Len(s) THEN Append(acc, cur)
  ELSE IF isSpaceChar(s[i])
    THEN IF inSpace THEN splitFrom(s, i + 1, cur, TRUE, acc)
         ELSE splitFrom(s, i + 1, <<>>, TRUE, Append(acc, cur))
    ELSE splitFrom(s, i + 1, Append(cur, s[i]), FALSE, acc)

splitWhitespace(s) == splitFrom(s, 1, <<>>, FALSE, <<>>)

\* Array.prototype.filter: the elements s[i] with keep[i], in their order.
filterSeq(s, keep) ==
  LET kept == {i \in DOMAIN s : keep[i]}
      nth(k) == CHOOSE i \in kept : Cardinality({j \in kept : j < i}) = k - 1
  IN [k \in 1..Cardinality(kept) |-> s[nth(k)]]

\* Array.prototype.slice(0, n)
sliceTo(s, n) == SubSeq(s, 1, IF Len(s) < n THEN Len(s) ELSE n)

\* ------------------------------------------------------- extractKeywords
stopWords ==
  { <<"t","h","e">>, <<"a">>, <<"a","n">>, <<"a","n","d">>, <<"o","r">>, <<"b","u","t">>, <<"i","n">>, <<"o","n">>, <<"a","t">>, <<"t","o">>, <<"f","o","r">>, <<"o","f">>, <<"w","i","t","h">>,
    <<"b","y">>, <<"f","r","o","m">>, <<"u","p">>, <<"a","b","o","u","t">>, <<"i","n","t","o">>, <<"t","h","r","o","u","g","h">>, <<"d","u","r","i","n","g">>, <<"b","e","f","o","r","e">>, <<"a","f","t","e","r">>,
    <<"a","b","o","v","e">>, <<"b","e","l","o","w">>, <<"b","e","t","w","e","e","n">>, <<"a","m","o","n","g">>, <<"i","s">>, <<"a","m">>, <<"a","r","e">>, <<"w","a","s">>, <<"w","e","r","e">>, <<"b","e">>,
    <<"b","e","e","n">>, <<"b","e","i","n","g">>, <<"h","a","v","e">>, <<"h","a","s">>, <<"h","a","d">>, <<"d","o">>, <<"d","o","e","s">>, <<"d","i","d">>, <<"w","i","l","l">>, <<"w","o","u","l","d">>,
    <<"c","o","u","l","d">>, <<"s","h","o","u","l","d">>, <<"m","a","y">>, <<"m","i","g","h","t">>, <<"m","u","s","t">>, <<"s","h","a","l","l">>, <<"c","a","n">>, <<"w","h","a","t">>, <<"w","h","e","n">>,
    <<"w","h","e","r","e">>, <<"w","h","y">>, <<"h","o","w">>, <<"w","h","o">>, <<"w","h","i","c","h">>, <<"t","h","a","t">>, <<"t","h","i","s">>, <<"t","h","e","s","e">>, <<"t","h","o","s","e">>, <<"i">>,
    <<"y","o","u">>, <<"h","e">>, <<"s","h","e">>, <<"i","t">>, <<"w","e">>, <<"t","h","e","y">>, <<"m","e">>, <<"h","i","m">>, <<"h","e","r">>, <<"u","s">>, <<"t","h","e","m">> }

isKeywordOrShort(word) == Len(word) >= MinKeywordLength /\ word \notin stopWords

\* word => word.length > 2 && !stopWords.has(word)
isKeyword(word) == Len(word) > MinKeywordLength /\ word \notin stopWords

extractKeywordsSliceFirst(query) ==
  LET words == sliceTo(splitWhitespace(removePunctuation(toLowerCase(query))), MaxKeywords)
  IN filterSeq(words, [i \in DOMAIN words |-> isKeyword(words[i])])

extractKeywords(query) ==
  LET words == splitWhitespace(removePunctuation(toLowerCase(query)))
  IN sliceTo(filterSeq(words, [i \in DOMAIN words |-> isKeyword(words[i])]), MaxKeywords)

\* The fallback's words: query.toLowerCase().split(/\s+/).filter(length > 3)
isFallbackWord(word) == Len(word) > MinFallbackWordLength

fallbackWords(query) ==
  LET words == splitWhitespace(toLowerCase(query))
  IN filterSeq(words, [i \in DOMAIN words |-> isFallbackWord(words[i])])

\* --------------------------------------------------------------- documents
\* null (a document of no organization, an instance of no scope).
Null == "<null>"
\* The character a long content is filled with.
FillChar == "z"

Min(a, b) == IF a < b THEN a ELSE b

Fill(n) == [i \in 1..n |-> FillChar]

\* doc.content.length
contentLength(content) == Len(content.text) + content.pad

\* doc.content.toLowerCase(): FillChar is a lower-case letter.
contentToLowerCase(content) == [text |-> toLowerCase(content.text), pad |-> content.pad]

\* String.prototype.includes on a content.  An occurrence of n lies in the
\* text followed by at most Len(n) fill characters, so no more are spelled out.
contentIncludes(content, n) ==
  includes(content.text \o Fill(Min(content.pad, Len(n))), n)

Doc(id, org, active, created, title, text, pad, tags) ==
  [id |-> id, organization_id |-> org, is_active |-> active, created_at |-> created,
   title |-> title, content |-> [text |-> text, pad |-> pad], tags |-> tags]

\* The rows the rag_documents table is filled from.  A row whose tags column
\* is null behaves in all the code modelled here as a row with no tags.
DocUniverse ==
  { Doc("d1", "A", TRUE, 3, <<"R","e","s","e","t"," ","G","u","i","d","e">>, <<"h","o","w"," ","t","o"," ","r","e","s","e","t">>, 0, << <<"r","e","s","e","t">> >>),
    Doc("d2", "A", TRUE, 2, <<"B","i","g">>, <<"a","b","o","u","t"," ","i","t">>, 1000, <<>>),
    Doc("d3", "B", TRUE, 3, <<"R","e","s","e","t"," ","b","i","g">>, <<"r","e","s","e","t">>, 0, << <<"R","e","s","e","t">> >>),
    Doc("d4", "A", FALSE, 4, <<"R","e","s","e","t"," ","b","i","g">>, <<"a","b","o","u","t"," ","r","e","s","e","t">>, 0, << <<"b","i","g">> >>),
    Doc("d5", Null, TRUE, 1, <<"r","e","s","e","t">>, <<"b","i","g"," ","r","e","s","e","t">>, 0, <<>>),
    Doc("d6", "A", TRUE, 3, <<"R","E","S","E","T">>, <<"t","h","e"," ","r","e","s","e","t">>, 0, << <<"r","e","s","e","t">> >>) }

\* The queries the callers of the model ask.
Queries ==
  { <<>>, <<"t","h","e"," ","o","f">>, <<"b","i","g">>, <<"R","e","s","e","t","!">>, <<"a","b","o","u","t"," ","r","e","s","e","t">> }

\* ------------------------------------------------------ the document store
\* The filters of a query are those the code puts on the query builder; the
\* store (PostgREST over PostgreSQL) applies them.
NoFilter == "<any>"

\* column ILIKE '%val%': case-insensitive; the code does not escape val, so
\* "_" in val stands for any one character and "%" (or "*", which PostgREST
\* reads as "%") for any run of characters.  (No query of the model holds a
\* backslash.)
minOf(S) == CHOOSE x \in S : \A y \in S : x <= y

likeWindow(h, p, i) == \A j \in 1..Len(p) : p[j] = "_" \/ h[i + j] = p[j]

isLikeAny(ch) == ch \in {"%", "*"}

\* The runs of val between two "%".
RECURSIVE likeSegments(_, _, _)
likeSegments(p, i, cur) ==
  IF i > Len(p) THEN <<cur>>
  ELSE IF isLikeAny(p[i]) THEN <<cur>> \o likeSegments(p, i + 1, <<>>)
  ELSE likeSegments(p, i + 1, Append(cur, p[i]))

\* The segments occur in h from position start on, in order, without overlap.
RECURSIVE likeFrom(_, _, _)
likeFrom(h, start, segs) ==
  IF segs = <<>> THEN TRUE
  ELSE LET seg == Head(segs)
           at == {i \in start..(Len(h) - Len(seg)) : likeWindow(h, seg, i)}
       IN at # {} /\ likeFrom(h, minOf(at) + Len(seg), Tail(segs))

ilikeContains(s, val) ==
  likeFrom(toLowerCase(s), 0, likeSegments(toLowerCase(val), 1, <<>>))

contentIlikeContains(content, val) ==
  ilikeContains(content.text \o Fill(Min(content.pad, Len(val))), val)

\* tags.cs.{val}: the array column contains the element val, compared exactly.
tagsContain(tags, val) == \E t \in DOMAIN tags : tags[t] = val

conditionHolds(d, c) ==
  CASE c.col = "title" -> ilikeContains(d.title, c.val)
    [] c.col = "content" -> contentIlikeContains(d.content, c.val)
    [] c.col = "tags" -> tagsContain(d.tags, c.val)

rowMatches(d, q) ==
  /\ q.activeOnly => d.is_active
  /\ q.org # NoFilter => d.organization_id = q.org
  /\ q.hasOr => \E c \in q.or : conditionHolds(d, c)

matchingRows(rows, q) == {d \in rows : rowMatches(d, q)}

\* What the store may answer: min(limit, matching) distinct matching rows.
\* Without ORDER BY the rows and their order are the store's choice; with
\* ORDER BY created_at DESC they are the most recent ones, most recent first
\* (rows of equal created_at in either order).
storeAnswers(rows, q) ==
  LET m == matchingRows(rows, q)
      k == Min(q.limit, Cardinality(m))
  IN {s \in [1..k -> m] :
        /\ \A i, j \in 1..k : i # j => s[i] # s[j]
        /\ q.orderDesc =>
             /\ \A i, j \in 1..k : i < j => s[i].created_at >= s[j].created_at
             /\ \A d \in m : (\A i \in 1..k : s[i] # d) =>
                  \A i \in 1..k : s[i].created_at >= d.created_at}

selectSoftDeletes(rows, q) ==
  {IF rowMatches(d, q) THEN [d EXCEPT !.is_active = FALSE] ELSE d : d \in rows}

\* The table after a query: every query of the code is a .select('*'), which
\* reads.
select(rows, q) == rows

\* The response of an awaited query: {data, error}.  On an error data is null.
okResponse(rows) == [error |-> FALSE, hasData |-> TRUE, data |-> rows]

errorResponse == [error |-> TRUE, hasData |-> FALSE, data |-> <<>>]

storeResponses(rows, q) == {okResponse(s) : s \in storeAnswers(rows, q)} \cup {errorResponse}

\* --------------------------------------------------- scoreDocumentRelevance
withScore(doc, score) ==
  [id |-> doc.id, organization_id |-> doc.organization_id, is_active |-> doc.is_active,
   created_at |-> doc.created_at, title |-> doc.title, content |-> doc.content,
   tags |-> doc.tags, relevanceScore |-> score]

\* The document a scored document was made from.
withoutScore(sd) ==
  [id |-> sd.id, organization_id |-> sd.organization_id, is_active |-> sd.is_active,
   created_at |-> sd.created_at, title |-> sd.title, content |-> sd.content,
   tags |-> sd.tags]

countAnyHit(hits) == IF \E i \in DOMAIN hits : hits[i] THEN 1 ELSE 0

\* The number of keywords a forEach adds points for.
countHits(hits) == Cardinality({i \in DOMAIN hits : hits[i]})

brevityBoostFlipped(content) == IF contentLength(content) < BrevityLength THEN 0 ELSE 0 - ScoreBrevity

\* Boost score for shorter content.
brevityBoost(content) == IF contentLength(content) < BrevityLength THEN ScoreBrevity ELSE 0

relevanceScore(doc, keywords, originalQuery) ==
  LET titleLower == toLowerCase(doc.title)
      contentLower == contentToLowerCase(doc.content)
      queryLower == toLowerCase(originalQuery)
      inTitle(keyword) == includes(titleLower, keyword)
      inContent(keyword) == contentIncludes(contentLower, keyword)
      inTags(keyword) == \E t \in DOMAIN doc.tags : includes(toLowerCase(doc.tags[t]), keyword)
  IN (IF includes(titleLower, queryLower) THEN ScoreTitleQuery ELSE 0)
     + (IF contentIncludes(contentLower, queryLower) THEN ScoreContentQuery ELSE 0)
     + ScoreTitleKeyword * countHits([i \in DOMAIN keywords |-> inTitle(keywords[i])])
     + ScoreContentKeyword * countHits([i \in DOMAIN keywords |-> inContent(keywords[i])])
     + ScoreTagKeyword * countHits([i \in DOMAIN keywords |-> inTags(keywords[i])])
     + brevityBoost(doc.content)

compareScoreAscending(a, b) == a.relevanceScore - b.relevanceScore

\* The comparator handed to sort: (a, b) => b.relevanceScore - a.relevanceScore
compareScore(a, b) == b.relevanceScore - a.relevanceScore

sortInsertAtEnd(sorted, e) == Append(sorted, e)

\* Array.prototype.sort is stable: an element goes behind every element that
\* the comparator does not put after it.
sortInsert(sorted, e) ==
  LET before == {i \in DOMAIN sorted : compareScore(sorted[i], e) <= 0}
      k == IF before = {} THEN 0 ELSE CHOOSE i \in before : \A j \in before : j <= i
  IN SubSeq(sorted, 1, k) \o <<e>> \o SubSeq(sorted, k + 1, Len(sorted))

RECURSIVE sortByScore(_)
sortByScore(s) ==
  IF s = <<>> THEN <<>>
  ELSE sortInsert(sortByScore(SubSeq(s, 1, Len(s) - 1)), s[Len(s)])

scoreWithoutSorting(documents, keywords, originalQuery) ==
  [i \in DOMAIN documents |->
     withScore(documents[i], relevanceScore(documents[i], keywords, originalQuery))]

scoreDocumentRelevance(documents, keywords, originalQuery) ==
  sortByScore([i \in DOMAIN documents |->
                 withScore(documents[i], relevanceScore(documents[i], keywords, originalQuery))])

\* --------------------------------------------------------- generateContext
ContextContentLength == 1500

\* A long string is a sequence of pieces [text, pad], read one after the other.
piece(text) == [text |-> text, pad |-> 0]

RECURSIVE ropeLength(_)
ropeLength(rope) ==
  IF rope = <<>> THEN 0 ELSE contentLength(Head(rope)) + ropeLength(Tail(rope))

\* content.substring(0, n)
contentSubstring(content, n) ==
  LET t == Min(Len(content.text), n)
  IN [text |-> SubSeq(content.text, 1, t), pad |-> Min(content.pad, n - t)]

\* Array.prototype.join on strings
RECURSIVE joinStrings(_, _)
joinStrings(strings, sep) ==
  IF strings = <<>> THEN <<>>
  ELSE IF Len(strings) = 1 THEN strings[1]
  ELSE strings[1] \o sep \o joinStrings(Tail(strings), sep)

\* Array.prototype.join on long strings
RECURSIVE joinRopes(_, _)
joinRopes(ropes, sep) ==
  IF ropes = <<>> THEN <<>>
  ELSE IF Len(ropes) = 1 THEN ropes[1]
  ELSE ropes[1] \o <<piece(sep)>> \o joinRopes(Tail(ropes), sep)

\* The decimal digits of a number n >= 0.
RECURSIVE toDecimal(_)
toDecimal(n) ==
  IF n < 10 THEN <<DigitChars[n + 1]>>
  ELSE toDecimal(n \div 10) \o <<DigitChars[(n % 10) + 1]>>

truncatedContentFromLimit(content) ==
  IF contentLength(content) >= ContextContentLength
    THEN <<contentSubstring(content, ContextContentLength), piece(<<".",".",".">>)>>
    ELSE <<content>>

\* doc.content.length > 1500 ? doc.content.substring(0, 1500) + '...' : doc.content
truncatedContent(content) ==
  IF contentLength(content) > ContextContentLength
    THEN <<contentSubstring(content, ContextContentLength), piece(<<".",".",".">>)>>
    ELSE <<content>>

contextBlock(doc, index) ==
  <<piece(<<"D","o","c","u","m","e","n","t"," ">> \o toDecimal(index + 1) \o <<":","\n","T","i","t","l","e",":"," ">> \o doc.title \o <<"\n","C","o","n","t","e","n","t",":"," ">>)>>
  \o truncatedContent(doc.content)
  \o <<piece(<<"\n">> \o (IF Len(doc.tags) > 0 THEN <<"T","a","g","s",":"," ">> \o joinStrings(doc.tags, <<","," ">>) ELSE <<>>))>>

generateContextAlwaysWrapped(documents) ==
  <<piece(<<"Y","o","u"," ","h","a","v","e"," ","a","c","c","e","s","s"," ","t","o"," ","t","h","e"," ","f","o","l","l","o","w","i","n","g"," ","r","e","l","e","v","a","n","t"," ","d","o","c","u","m","e","n","t","a","t","i","o","n","."," ","P","l","e","a","s","e"," ","u","s","e"," ","t","h","i","s"," ","i","n","f","o","r","m","a","t","i","o","n"," ","t","o"," ","p","r","o","v","i","d","e"," ","a","c","c","u","r","a","t","e"," ","a","n","d"," ","h","e","l","p","f","u","l"," ","r","e","s","p","o","n","s","e","s",":","\n","\n">>)>>
  \o joinRopes([i \in DOMAIN documents |-> contextBlock(documents[i], i - 1)], <<"\n","\n","-","-","-","\n","\n">>)
  \o <<piece(<<"\n","\n","I","M","P","O","R","T","A","N","T",":"," ","W","h","e","n"," ","a","n","s","w","e","r","i","n","g",","," ","r","e","f","e","r","e","n","c","e"," ","t","h","e"," ","s","p","e","c","i","f","i","c"," ","d","o","c","u","m","e","n","t","s"," ","a","b","o","v","e"," ","w","h","e","n"," ","r","e","l","e","v","a","n","t"," ","a","n","d"," ","p","r","o","v","i","d","e"," ","a","c","c","u","r","a","t","e"," ","i","n","f","o","r","m","a","t","i","o","n"," ","b","a","s","e","d"," ","o","n"," ","t","h","e"," ","d","o","c","u","m","e","n","t","a","t","i","o","n"," ","p","r","o","v","i","d","e","d",".">>)>>

generateContext(documents) ==
  IF Len(documents) = 0 THEN <<>>
  ELSE <<piece(<<"Y","o","u"," ","h","a","v","e"," ","a","c","c","e","s","s"," ","t","o"," ","t","h","e"," ","f","o","l","l","o","w","i","n","g"," ","r","e","l","e","v","a","n","t"," ","d","o","c","u","m","e","n","t","a","t","i","o","n","."," ","P","l","e","a","s","e"," ","u","s","e"," ","t","h","i","s"," ","i","n","f","o","r","m","a","t","i","o","n"," ","t","o"," ","p","r","o","v","i","d","e"," ","a","c","c","u","r","a","t","e"," ","a","n","d"," ","h","e","l","p","f","u","l"," ","r","e","s","p","o","n","s","e","s",":","\n","\n">>)>>
       \o joinRopes([i \in DOMAIN documents |-> contextBlock(documents[i], i - 1)], <<"\n","\n","-","-","-","\n","\n">>)
       \o <<piece(<<"\n","\n","I","M","P","O","R","T","A","N","T",":"," ","W","h","e","n"," ","a","n","s","w","e","r","i","n","g",","," ","r","e","f","e","r","e","n","c","e"," ","t","h","e"," ","s","p","e","c","i","f","i","c"," ","d","o","c","u","m","e","n","t","s"," ","a","b","o","v","e"," ","w","h","e","n"," ","r","e","l","e","v","a","n","t"," ","a","n","d"," ","p","r","o","v","i","d","e"," ","a","c","c","u","r","a","t","e"," ","i","n","f","o","r","m","a","t","i","o","n"," ","b","a","s","e","d"," ","o","n"," ","t","h","e"," ","d","o","c","u","m","e","n","t","a","t","i","o","n"," ","p","r","o","v","i","d","e","d",".">>)>>

\* ------------------------------------------------------------------- state
VARIABLES
  store,                  \* the rows of the rag_documents table
  currentOrganizationId,  \* AIService.currentOrganizationId
  calls,                  \* the retrieveRelevantDocuments calls, by call
  prev,                   \* what the call before a repeated call returned
  gen,                    \* the generateResponse call
  app                     \* a function applied on its own: input and output

vars == <<store, currentOrganizationId, calls, prev, gen, app>>

\* The calls of an instance; a caller that awaits each call uses one.
CallIds == {1, 2}
SequentialCalls == {1}

Providers == {"openai", "anthropic", "openrouter", "gemini"}
SupportedProviders == {"openai", "anthropic", "openrouter"}

\* The organization ids handed to the constructor and to setOrganizationContext.
OrganizationIds == {"A", "B"}

\* if (this.currentOrganizationId): null and "" are no scope.
truthy(org) == org # Null /\ org # ""

\* constructor: organizationId || null
constructorScope(organizationId) == IF truthy(organizationId) THEN organizationId ELSE Null

idleCall ==
  [pc |-> "idle", entry |-> "none", query |-> <<>>, limit |-> 0, keywords |-> <<>>,
   inflight |-> {}, issued |-> <<>>, scopes |-> <<>>, answered |-> 0, failed |-> FALSE,
   answers |-> <<>>, fetched |-> <<>>, status |-> "pending", result |-> <<>>, path |-> "none"]

NoPrev ==
  [valid |-> FALSE, query |-> <<>>, limit |-> 0, scopes |-> <<>>, failed |-> FALSE,
   status |-> "pending", result |-> <<>>]

idleGen ==
  [pc |-> "idle", call |-> 0, query |-> <<>>, provider |-> "none", context |-> <<>>,
   called |-> FALSE, documents |-> <<>>, status |-> "pending", failure |-> "none",
   ragDocuments |-> <<>>, ragFound |-> FALSE, retrievalFailed |-> FALSE]

noApp == [fn |-> "none"]

\* ------------------------------------------------- the queries of the code
orgFilterAlways(org) == org

\* if (this.currentOrganizationId) query = query.eq('organization_id', ...)
orgFilter(org) == IF truthy(org) THEN org ELSE NoFilter

\* title.ilike.%k%,content.ilike.%k%,tags.cs.{k} for every keyword k
searchConditions(keywords) ==
  UNION {{[col |-> "title", op |-> "ilike", val |-> k],
          [col |-> "content", op |-> "ilike", val |-> k],
          [col |-> "tags", op |-> "cs", val |-> k]} : k \in Range(keywords)}

\* title.ilike.%w%,content.ilike.%w% for every word w
fallbackConditions(words) ==
  UNION {{[col |-> "title", op |-> "ilike", val |-> w],
          [col |-> "content", op |-> "ilike", val |-> w]} : w \in Range(words)}

primaryQuery(org, keywords, limit) ==
  [kind |-> "primary", activeOnly |-> TRUE, org |-> orgFilter(org), hasOr |-> TRUE,
   or |-> searchConditions(keywords), limit |-> limit * OverFetch, orderDesc |-> FALSE]

recentQueryAnyActivity(org, limit) ==
  [kind |-> "recent", activeOnly |-> FALSE, org |-> orgFilter(org), hasOr |-> FALSE,
   or |-> {}, limit |-> limit, orderDesc |-> TRUE]

recentQueryOverFetch(org, limit) ==
  [kind |-> "recent", activeOnly |-> TRUE, org |-> orgFilter(org), hasOr |-> FALSE,
   or |-> {}, limit |-> limit * OverFetch, orderDesc |-> TRUE]

recentQueryUnordered(org, limit) ==
  [kind |-> "recent", activeOnly |-> TRUE, org |-> orgFilter(org), hasOr |-> FALSE,
   or |-> {}, limit |-> limit, orderDesc |-> FALSE]

recentQuery(org, limit) ==
  [kind |-> "recent", activeOnly |-> TRUE, org |-> orgFilter(org), hasOr |-> FALSE,
   or |-> {}, limit |-> limit, orderDesc |-> TRUE]

fallbackQueryUnscoped(org, words, limit) ==
  [kind |-> "words", activeOnly |-> TRUE, org |-> NoFilter, hasOr |-> TRUE,
   or |-> fallbackConditions(words), limit |-> limit, orderDesc |-> FALSE]

fallbackQuery(org, words, limit) ==
  [kind |-> "words", activeOnly |-> TRUE, org |-> orgFilter(org), hasOr |-> TRUE,
   or |-> fallbackConditions(words), limit |-> limit, orderDesc |-> FALSE]

\* ------------------------------------------- retrieveRelevantDocuments
\* The promise of the call settles: fulfilled with docs, or rejected.
resolve(call, path, docs) ==
  [call EXCEPT !.pc = "done", !.status = "returned", !.result = docs, !.path = path]

reject(call, path) ==
  [call EXCEPT !.pc = "done", !.status = "rejected", !.result = <<>>, !.path = path]

\* The call sends the queries qs, built while the instance's scope is org,
\* and awaits.
issue(call, org, qs, pc) ==
  [call EXCEPT !.pc = pc, !.inflight = @ \cup Range(qs), !.issued = @ \o qs,
               !.scopes = @ \o [i \in DOMAIN qs |-> org]]

\* The response resp to the query q arrives; answers keeps, of every
\* response, whether it is an error and how many rows it carries.
received(call, q, resp) ==
  [call EXCEPT !.inflight = @ \ {q}, !.answered = @ + 1, !.failed = @ \/ resp.error,
               !.answers = Append(@, [error |-> resp.error, rows |-> Len(resp.data)])]

\* data || []
dataOrEmpty(resp) == IF resp.hasData THEN resp.data ELSE <<>>

neverShortCircuit(keywords) == FALSE

\* if (keywords.length === 0) return []
noKeywords(keywords) == Len(keywords) = 0

\* The fallback's one query: the recent documents, or the word match.
fallbackQueries(org, query, limit) ==
  LET words == fallbackWords(query)
  IN IF Len(words) = 0 THEN <<recentQuery(org, limit)>>
     ELSE <<fallbackQuery(org, words, limit)>>

startQueriesInParallel(org, query, keywords, limit) ==
  <<primaryQuery(org, keywords, limit)>> \o fallbackQueries(org, query, limit)

\* What a call with keywords sends before its first await: the primary query.
startQueries(org, query, keywords, limit) == <<primaryQuery(org, keywords, limit)>>

retrieveStart(org, query, limit, entry) ==
  LET keywords == extractKeywords(query)
      started == [idleCall EXCEPT !.entry = entry, !.query = query, !.limit = limit,
                                  !.keywords = keywords]
  IN IF noKeywords(keywords) THEN resolve(started, "noKeywords", <<>>)
     ELSE issue(started, org, startQueries(org, query, keywords, limit), "primary")

catchRetrieveRethrows(call) == reject(call, "primaryError")

\* catch (error) { return []; } of retrieveRelevantDocuments
catchRetrieve(call) == resolve(call, "primaryError", <<>>)

catchFallbackRethrows(call) == reject(call, "fallbackError")

\* catch (error) { return []; } of fallbackDocumentSearch
catchFallback(call) == resolve(call, "fallbackError", <<>>)

allResults(scoredDocuments, limit) == scoredDocuments

\* scoredDocuments.slice(0, limit)
topResults(scoredDocuments, limit) == sliceTo(scoredDocuments, limit)

fallbackDocumentSearch(call, org) ==
  issue(call, org, fallbackQueries(org, call.query, call.limit), "fallback")

\* The keywords of a call kept in a field of the instance: those of another
\* call that has started, when there is one.
sharedKeywords(call) ==
  LET others == {c \in CallIds : calls[c].pc # "idle" /\ calls[c].keywords # call.keywords}
  IN IF others = {} THEN call.keywords ELSE calls[CHOOSE c \in others : TRUE].keywords

afterPrimarySharedKeywords(call, org, resp) ==
  IF resp.error THEN catchRetrieve(call)
  ELSE IF ~resp.hasData \/ Len(resp.data) = 0 THEN fallbackDocumentSearch(call, org)
  ELSE resolve([call EXCEPT !.fetched = resp.data], "scored",
               topResults(scoreDocumentRelevance(resp.data, sharedKeywords(call), call.query),
                          call.limit))

afterPrimaryFallbackOnError(call, org, resp) ==
  IF resp.error \/ ~resp.hasData \/ Len(resp.data) = 0 THEN fallbackDocumentSearch(call, org)
  ELSE resolve([call EXCEPT !.fetched = resp.data], "scored",
               topResults(scoreDocumentRelevance(resp.data, call.keywords, call.query),
                          call.limit))

\* After await dbQuery; fetched keeps the candidates the store answered with.
afterPrimary(call, org, resp) ==
  IF resp.error THEN catchRetrieve(call)
  ELSE IF ~resp.hasData \/ Len(resp.data) = 0 THEN fallbackDocumentSearch(call, org)
  ELSE resolve([call EXCEPT !.fetched = resp.data], "scored",
               topResults(scoreDocumentRelevance(resp.data, call.keywords, call.query),
                          call.limit))

\* After await recentQuery (the error is not looked at) or await fallbackQuery.
afterFallback(call, q, resp) ==
  IF q.kind = "recent" THEN resolve(call, "recent", dataOrEmpty(resp))
  ELSE IF resp.error THEN catchFallback(call)
  ELSE resolve(call, "words", dataOrEmpty(resp))

\* ------------------------------------------------------- generateResponse
failGeneration(g, failure) ==
  [g EXCEPT !.pc = "done", !.status = "failed", !.failure = failure]

\* After await this.retrieveRelevantDocuments(query): the context, the
\* messages and the switch on the provider, up to the provider's call.
afterRetrieval(g, call) ==
  IF call.status = "rejected" THEN failGeneration(g, "retrieval")
  ELSE LET sent == [g EXCEPT !.documents = call.result,
                             !.context = generateContext(call.result),
                             !.retrievalFailed = call.failed]
       IN IF g.provider \in SupportedProviders
            THEN [sent EXCEPT !.pc = "provider", !.called = TRUE]
            ELSE failGeneration(sent, "unsupported")

\* After await this.callOpenAI / callAnthropic / callOpenRouter.
afterProvider(g, ok) ==
  IF ok
    THEN [g EXCEPT !.pc = "done", !.status = "returned",
                   !.ragDocuments = [i \in DOMAIN g.documents |-> g.documents[i].id],
                   !.ragFound = Len(g.documents) > 0]
    ELSE failGeneration(g, "provider")

\* ----------------------------------------------------------------- actions
Limits == 0..MaxLimit

Stores == {S \in SUBSET DocUniverse : Cardinality(S) <= MaxStore}

Init ==
  /\ store \in Stores
  /\ currentOrganizationId \in {constructorScope(o) : o \in OrganizationIds \cup {Null, ""}}
  /\ calls = [c \in CallIds |-> idleCall]
  /\ prev = NoPrev
  /\ gen = idleGen
  /\ app = noApp

\* The ids a caller hands to setOrganizationContext.
ContextIds == OrganizationIds \cup {Null}

\* setOrganizationContext(organizationId)
SetOrganizationContext(organizationId) ==
  /\ currentOrganizationId' = organizationId
  /\ UNCHANGED <<store, calls, prev, gen, app>>

\* A caller calls retrieveRelevantDocuments(query, limit): the call runs to
\* its first await, or to its return when the query has no keywords.
Invoke(c, query, limit) ==
  /\ calls[c].pc = "idle"
  /\ gen.pc = "idle"
  /\ calls' = [calls EXCEPT ![c] = retrieveStart(currentOrganizationId, query, limit, "direct")]
  /\ UNCHANGED <<store, currentOrganizationId, prev, gen, app>>

\* The store answers the primary query and the call runs on.
PrimaryResponse(c) ==
  /\ calls[c].pc = "primary"
  /\ \E q \in calls[c].inflight :
       /\ q.kind = "primary"
       /\ store' = select(store, q)
       /\ \E resp \in storeResponses(store, q) :
            calls' = [calls EXCEPT ![c] =
                        afterPrimary(received(calls[c], q, resp), currentOrganizationId, resp)]
  /\ UNCHANGED <<currentOrganizationId, prev, gen, app>>

\* The store answers the fallback's query and the call returns.
FallbackResponse(c) ==
  /\ calls[c].pc = "fallback"
  /\ \E q \in calls[c].inflight :
       /\ q.kind # "primary"
       /\ store' = select(store, q)
       /\ \E resp \in storeResponses(store, q) :
            calls' = [calls EXCEPT ![c] = afterFallback(received(calls[c], q, resp), q, resp)]
  /\ UNCHANGED <<currentOrganizationId, prev, gen, app>>

\* The caller takes the result of its call.
Return(c) ==
  /\ calls[c].pc = "done"
  /\ calls[c].entry = "direct"
  /\ calls' = [calls EXCEPT ![c] = idleCall]
  /\ prev' = NoPrev
  /\ UNCHANGED <<store, currentOrganizationId, gen, app>>

\* The caller takes the result and makes the same call once more.
InvokeAgain(c) ==
  /\ calls[c].pc = "done"
  /\ calls[c].entry = "direct"
  /\ ~prev.valid
  /\ prev' = [valid |-> TRUE, query |-> calls[c].query, limit |-> calls[c].limit,
              scopes |-> calls[c].scopes, failed |-> calls[c].failed,
              status |-> calls[c].status, result |-> calls[c].result]
  /\ calls' = [calls EXCEPT ![c] =
                 retrieveStart(currentOrganizationId, calls[c].query, calls[c].limit, "direct")]
  /\ UNCHANGED <<store, currentOrganizationId, gen, app>>

\* generateResponse(query, provider, model): to the await of its retrieval,
\* which it calls with the default limit.
GenerateResponse(c, query, provider) ==
  /\ gen.pc = "idle"
  /\ calls[c].pc = "idle"
  /\ calls' = [calls EXCEPT ![c] =
                 retrieveStart(currentOrganizationId, query, DefaultLimit, "generateResponse")]
  /\ gen' = [idleGen EXCEPT !.pc = "retrieving", !.call = c, !.query = query,
                            !.provider = provider]
  /\ UNCHANGED <<store, currentOrganizationId, prev, app>>

AfterRetrieval ==
  /\ gen.pc = "retrieving"
  /\ calls[gen.call].pc = "done"
  /\ gen' = afterRetrieval(gen, calls[gen.call])
  /\ calls' = [calls EXCEPT ![gen.call] = idleCall]
  /\ UNCHANGED <<store, currentOrganizationId, prev, app>>

\* The provider's proxy answers, or the call of the provider fails (no API
\* key, a response that is not ok).
ProviderResponse(ok) ==
  /\ gen.pc = "provider"
  /\ gen' = afterProvider(gen, ok)
  /\ UNCHANGED <<store, currentOrganizationId, calls, prev, app>>

\* The caller of generateResponse takes its outcome.
GenerateReturn ==
  /\ gen.pc = "done"
  /\ gen' = idleGen
  /\ UNCHANGED <<store, currentOrganizationId, calls, prev, app>>

Next ==
  \/ \E o \in ContextIds : SetOrganizationContext(o)
  \/ \E c \in SequentialCalls, q \in Queries, l \in Limits : Invoke(c, q, l)
  \/ \E c \in SequentialCalls : PrimaryResponse(c)
  \/ \E c \in SequentialCalls : FallbackResponse(c)
  \/ \E c \in SequentialCalls : Return(c)
  \/ \E c \in SequentialCalls : InvokeAgain(c)
  \/ \E c \in SequentialCalls, q \in Queries, p \in Providers : GenerateResponse(c, q, p)
  \/ AfterRetrieval
  \/ \E ok \in BOOLEAN : ProviderResponse(ok)
  \/ GenerateReturn

Spec == Init /\ [][Next]_vars

\* ------------------------------------- the scorer applied on its own
KeywordLists ==
  { <<>>, << <<"r","e","s","e","t">> >>, << <<"b","i","g">> >>, << <<"r","e","s","e","t">>, <<"b","i","g">> >>, << <<"b","i","g">>, <<"b","i","g">> >>,
    << <<"a","b","o","u","t">>, <<"a","_","b">> >> }

\* The documents the scorer is handed: those of the store's rows, and one
\* with several tags that hold the same keyword.
ScoreDocs ==
  DocUniverse \cup
    { Doc("d7", "A", TRUE, 5, <<"T","a","g","g","e","d">>, <<"p","l","a","i","n">>, 0, << <<"b","i","g"," ","r","e","s","e","t">>, <<"R","e","s","e","t">>, <<"B","I","G">> >>) }

\* The rows a store answers with are distinct rows.
Candidates ==
  {s \in UNION {[1..n -> ScoreDocs] : n \in 0..MaxCand} :
     \A i, j \in DOMAIN s : i # j => s[i] # s[j]}

InitScore ==
  /\ store = {}
  /\ currentOrganizationId = Null
  /\ calls = [c \in CallIds |-> idleCall]
  /\ prev = NoPrev
  /\ gen = idleGen
  /\ \E d \in Candidates, k \in KeywordLists, q \in Queries :
       app = [fn |-> "scoreDocumentRelevance", documents |-> d, keywords |-> k,
              originalQuery |-> q, done |-> FALSE, out |-> <<>>]

ApplyScore ==
  /\ app.fn = "scoreDocumentRelevance"
  /\ ~app.done
  /\ app' = [app EXCEPT !.done = TRUE,
                        !.out = scoreDocumentRelevance(app.documents, app.keywords,
                                                       app.originalQuery)]
  /\ UNCHANGED <<store, currentOrganizationId, calls, prev, gen>>

NextScore == ApplyScore

SpecScore == InitScore /\ [][NextScore]_vars

\* ------------------------------------- extractKeywords applied on its own
\* Longest list of words a query starts with.
MaxTokens == 2
\* Largest number of further words a query goes on with.
MaxRepeat == 14

\* The words a query starts with; the empty word makes a leading, a doubled
\* or a trailing blank.
QueryTokens ==
  { <<>>, <<"r","e","s","e","t">>, <<"T","h","e">>, <<"o","f">>, <<"a","b">>, <<"B","i","g","!">>, <<"i","t","'","s">>, <<"a","_","b">>, <<"x","-","r","a","y">> }

\* The words a long query goes on with, taken in turn.
CycleTokens == << <<"a","l","p","h","a">>, <<"o","f">>, <<"b","e","t","a">>, <<"a","l","p","h","a">> >>

cycleWords(n) == [i \in 1..n |-> CycleTokens[((i - 1) % Len(CycleTokens)) + 1]]

KeywordQueries ==
  { joinStrings(p \o cycleWords(n), <<" ">>) :
      p \in UNION {[1..k -> QueryTokens] : k \in 0..MaxTokens}, n \in 0..MaxRepeat }

InitKeywords ==
  /\ store = {}
  /\ currentOrganizationId = Null
  /\ calls = [c \in CallIds |-> idleCall]
  /\ prev = NoPrev
  /\ gen = idleGen
  /\ \E q \in KeywordQueries :
       app = [fn |-> "extractKeywords", query |-> q, done |-> FALSE, out |-> <<>>]

ApplyKeywords ==
  /\ app.fn = "extractKeywords"
  /\ ~app.done
  /\ app' = [app EXCEPT !.done = TRUE, !.out = extractKeywords(app.query)]
  /\ UNCHANGED <<store, currentOrganizationId, calls, prev, gen>>

NextKeywords == ApplyKeywords

SpecKeywords == InitKeywords /\ [][NextKeywords]_vars

\* ------------------------------------- generateContext applied on its own
\* Longest document sequence handed to generateContext on its own.
MaxContextDocs == 3

\* A content one character longer than the context keeps, the last
\* character unlike the others.
LongText ==
  [i \in 1..(ContextContentLength + 1) |-> IF i > ContextContentLength THEN "Q" ELSE "y"]

\* Documents with contents of 0, 12, 1500, 1501 and 1501 characters.
ContextDocs ==
  { Doc("c1", "A", TRUE, 1, <<"R","e","s","e","t"," ","G","u","i","d","e">>, <<"h","o","w"," ","t","o"," ","r","e","s","e","t">>, 0, << <<"r","e","s","e","t">>, <<"f","a","q">> >>),
    Doc("c2", "A", TRUE, 2, <<"E","x","a","c","t">>, <<"a","b","c">>, ContextContentLength - 3, <<>>),
    Doc("c3", "A", TRUE, 3, <<"O","v","e","r">>, <<"a","b","c">>, ContextContentLength - 2, << <<"x">> >>),
    Doc("c4", "A", TRUE, 4, <<"M","a","r","k","e","d">>, LongText, 0, <<>>),
    Doc("c5", "A", TRUE, 5, <<"E","m","p","t","y">>, <<>>, 0, << <<"n","o","n","e">> >>),
    Doc("c6", "A", TRUE, 6, <<"D","o","t","s">>, <<"s","e","e"," ","b","e","l","o","w",".",".",".">>, 0, <<>>) }

InitContext ==
  /\ store = {}
  /\ currentOrganizationId = Null
  /\ calls = [c \in CallIds |-> idleCall]
  /\ prev = NoPrev
  /\ gen = idleGen
  /\ \E d \in UNION {[1..n -> ContextDocs] : n \in 0..MaxContextDocs} :
       app = [fn |-> "generateContext", documents |-> d, done |-> FALSE, out |-> <<>>]

ApplyContext ==
  /\ app.fn = "generateContext"
  /\ ~app.done
  /\ app' = [app EXCEPT !.done = TRUE, !.out = generateContext(app.documents)]
  /\ UNCHANGED <<store, currentOrganizationId, calls, prev, gen>>

NextContext == ApplyContext

SpecContext == InitContext /\ [][NextContext]_vars

\* --------------------------- the scorer on the password-reset scenario
ScenarioQuery == <<"h","o","w"," ","d","o"," ","I"," ","r","e","s","e","t"," ","m","y"," ","p","a","s","s","w","o","r","d">>

GuideTitle == <<"P","a","s","s","w","o","r","d"," ","R","e","s","e","t"," ","G","u","i","d","e">>

\* Contents that match both keywords: a short one, a long one, and one that
\* holds the whole query.
GuideContents ==
  { [text |-> <<"T","o"," ","r","e","s","e","t"," ","y","o","u","r"," ","p","a","s","s","w","o","r","d"," ","o","p","e","n"," ","t","h","e"," ","s","e","t","t","i","n","g","s">>, pad |-> 0],
    [text |-> <<"T","o"," ","r","e","s","e","t"," ","y","o","u","r"," ","p","a","s","s","w","o","r","d"," ","o","p","e","n"," ","t","h","e"," ","s","e","t","t","i","n","g","s">>, pad |-> BrevityLength],
    [text |-> <<"H","o","w"," ","d","o"," ","I"," ","r","e","s","e","t"," ","m","y"," ","p","a","s","s","w","o","r","d","?"," ","F","o","l","l","o","w"," ","t","h","e","s","e"," ","s","t","e","p","s">>, pad |-> 0] }

GuideTags == { <<>>, << <<"p","a","s","s","w","o","r","d">> >>, << <<"P","a","s","s","w","o","r","d","s">>, <<"r","e","s","e","t">> >> }

GuideDocs ==
  { [id |-> "guide", organization_id |-> "A", is_active |-> TRUE, created_at |-> 1,
     title |-> GuideTitle, content |-> c, tags |-> t] : c \in GuideContents, t \in GuideTags }

\* Documents that mention "password" once, in a body of 2000 characters.
MentionDocs ==
  { Doc("mention", "A", TRUE, 2, t, <<"Y","o","u","r"," ","p","a","s","s","w","o","r","d"," ","i","s"," ","s","e","t"," ","b","y"," ","t","h","e"," ","a","d","m","i","n","i","s","t","r","a","t","o","r">>,
        2000 - 41, g) :
      t \in { <<"B","i","l","l","i","n","g">>, <<"A","c","c","o","u","n","t"," ","F","A","Q">> }, g \in { <<>>, << <<"b","i","l","l","i","n","g">> >> } }

InitScenario ==
  /\ store = {}
  /\ currentOrganizationId = Null
  /\ calls = [c \in CallIds |-> idleCall]
  /\ prev = NoPrev
  /\ gen = idleGen
  /\ \E g \in GuideDocs, m \in MentionDocs : \E d \in {<<g, m>>, <<m, g>>} :
       app = [fn |-> "scoreDocumentRelevance", documents |-> d,
              keywords |-> extractKeywords(ScenarioQuery), originalQuery |-> ScenarioQuery,
              done |-> FALSE, out |-> <<>>]

NextScenario == ApplyScore

SpecScenario == InitScenario /\ [][NextScenario]_vars

\* ------------------------------- retrieval over stores of three documents
\* Queries whose keywords match no document: one with no word for the
\* fallback, one with a fallback word some content holds, one with a
\* fallback word no document holds; and a query the primary finds rows for.
FallbackScenarioQueries == { <<"i","t","s">>, <<"x","y","z"," ","a","b","o","u","t">>, <<"x","y","z"," ","n","o","t","h","i","n","g">>, <<"R","e","s","e","t","!">> }

ScenarioLimits == Limits \cup {DefaultLimit}

\* The tables of three or four rows.
ScenarioStores == {S \in SUBSET DocUniverse : Cardinality(S) \in {3, 4}}

InitFallback ==
  /\ store \in ScenarioStores
  /\ currentOrganizationId \in ContextIds
  /\ calls = [c \in CallIds |-> idleCall]
  /\ prev = NoPrev
  /\ gen = idleGen
  /\ app = noApp

NextFallback ==
  \/ \E o \in ContextIds : SetOrganizationContext(o)
  \/ \E c \in SequentialCalls, q \in FallbackScenarioQueries, l \in ScenarioLimits : Invoke(c, q, l)
  \/ \E c \in SequentialCalls : PrimaryResponse(c)
  \/ \E c \in SequentialCalls : FallbackResponse(c)
  \/ \E c \in SequentialCalls : Return(c)

SpecFallback == InitFallback /\ [][NextFallback]_vars

\* ---- The filters over titles, contents and tags that meet the pattern
\* characters of ILIKE ----
PatternDocs ==
  { Doc("w1", "A", TRUE, 1, <<"a","_","b"," ","n","o","t","e","s">>, <<"p","l","a","i","n">>, 0, <<>>),
    Doc("w2", "A", TRUE, 2, <<"a","x","b"," ","p","l","a","n">>, <<"p","l","a","i","n">>, 0, <<>>),
    Doc("w3", "A", TRUE, 3, <<"T","a","g","g","e","d">>, <<"p","l","a","i","n">>, 0, << <<"A","_","B">> >>),
    Doc("w4", "A", TRUE, 4, <<"O","t","h","e","r">>, <<"p","l","a","i","n">>, 0, << <<"a","_","b">> >>),
    Doc("w5", "A", TRUE, 5, <<"R","e","s","e","t"," ","G","u","i","d","e">>, <<"h","o","w"," ","t","o"," ","r","e","s","e","t">>, 0, <<>>) }

PatternQueries == { <<"a","_","b">>, <<"x","y","z"," ","r","e","%","e","t">>, <<"x","y","z"," ","r","e","s","e","t">> }

PatternStores == SUBSET PatternDocs \ {{}}

InitPattern ==
  /\ store \in PatternStores
  /\ currentOrganizationId \in {constructorScope(o) : o \in {Null, "A"}}
  /\ calls = [c \in CallIds |-> idleCall]
  /\ prev = NoPrev
  /\ gen = idleGen
  /\ app = noApp

NextPattern ==
  \/ \E c \in SequentialCalls, q \in PatternQueries, l \in Limits : Invoke(c, q, l)
  \/ \E c \in SequentialCalls : PrimaryResponse(c)
  \/ \E c \in SequentialCalls : FallbackResponse(c)
  \/ \E c \in SequentialCalls : Return(c)

SpecPattern == InitPattern /\ [][NextPattern]_vars

\* ---- The entry points that read: retrieveRelevantDocuments,
\* searchDocuments, testRAGSearch, generateContext ----
\* searchDocuments: this.retrieveRelevantDocuments(query, 10)
SearchDocumentsLimit == 10

\* testRAGSearch: await this.retrieveRelevantDocuments(query, 5)
TestSearchLimit == 5

ReadOnlyDocs == {d \in DocUniverse : d.id \in {"d1", "d3", "d5"}}

ReadOnlyQueries == { <<"b","i","g">>, <<"R","e","s","e","t","!">>, <<"t","h","e"," ","o","f">> }

\* searchDocuments(query): to the first await of the retrieval it returns.
SearchDocuments(c, query) ==
  /\ calls[c].pc = "idle"
  /\ gen.pc = "idle"
  /\ calls' = [calls EXCEPT ![c] =
                 retrieveStart(currentOrganizationId, query, SearchDocumentsLimit,
                               "searchDocuments")]
  /\ UNCHANGED <<store, currentOrganizationId, prev, gen, app>>

\* The caller of searchDocuments takes the documents.
SearchReturn(c) ==
  /\ calls[c].pc = "done"
  /\ calls[c].entry = "searchDocuments"
  /\ calls' = [calls EXCEPT ![c] = idleCall]
  /\ UNCHANGED <<store, currentOrganizationId, prev, gen, app>>

\* testRAGSearch(query): extractKeywords, then to the await of its retrieval.
TestRAGSearch(c, query) ==
  /\ calls[c].pc = "idle"
  /\ gen.pc = "idle"
  /\ calls' = [calls EXCEPT ![c] =
                 retrieveStart(currentOrganizationId, query, TestSearchLimit, "testRAGSearch")]
  /\ UNCHANGED <<store, currentOrganizationId, prev, gen, app>>

\* testRAGSearch after its await: generateContext(documents) and the
\* return of {keywords, documents, context}.
TestReturn(c) ==
  /\ calls[c].pc = "done"
  /\ calls[c].entry = "testRAGSearch"
  /\ app' = [fn |-> "testRAGSearch", keywords |-> extractKeywords(calls[c].query),
             documents |-> calls[c].result, context |-> generateContext(calls[c].result)]
  /\ calls' = [calls EXCEPT ![c] = idleCall]
  /\ UNCHANGED <<store, currentOrganizationId, prev, gen>>

\* The caller of retrieveRelevantDocuments hands the documents it got to
\* generateContext.
ContextOfResult(c) ==
  /\ calls[c].pc = "done"
  /\ calls[c].entry = "direct"
  /\ app' = [fn |-> "generateContext", documents |-> calls[c].result, done |-> TRUE,
             out |-> generateContext(calls[c].result)]
  /\ calls' = [calls EXCEPT ![c] = idleCall]
  /\ UNCHANGED <<store, currentOrganizationId, prev, gen>>

InitReadOnly ==
  /\ store \in SUBSET ReadOnlyDocs
  /\ currentOrganizationId \in {constructorScope(o) : o \in OrganizationIds \cup {Null, ""}}
  /\ calls = [c \in CallIds |-> idleCall]
  /\ prev = NoPrev
  /\ gen = idleGen
  /\ app = noApp

NextReadOnly ==
  \/ \E o \in ContextIds \cup {""} : SetOrganizationContext(o)
  \/ \E c \in SequentialCalls, q \in ReadOnlyQueries : Invoke(c, q, 1)
  \/ \E c \in SequentialCalls, q \in ReadOnlyQueries : SearchDocuments(c, q)
  \/ \E c \in SequentialCalls, q \in ReadOnlyQueries : TestRAGSearch(c, q)
  \/ \E c \in SequentialCalls : PrimaryResponse(c)
  \/ \E c \in SequentialCalls : FallbackResponse(c)
  \/ \E c \in SequentialCalls : Return(c)
  \/ \E c \in SequentialCalls : SearchReturn(c)
  \/ \E c \in SequentialCalls : TestReturn(c)
  \/ \E c \in SequentialCalls : ContextOfResult(c)

SpecReadOnly == InitReadOnly /\ [][NextReadOnly]_vars

\* ---- Two calls of retrieveRelevantDocuments in flight on one instance ----
ConcurrentQueries == { <<"b","i","g">>, <<"R","e","s","e","t","!">>, <<"a","b","o","u","t"," ","r","e","s","e","t">> }

ConcurrentLimits == {1, MaxLimit}

\* A caller calls retrieveRelevantDocuments while no call has returned yet:
\* the second call is made while the first awaits the store.
InvokeConcurrently(c, query, limit) ==
  /\ \A o \in CallIds : calls[o].pc # "done"
  /\ Invoke(c, query, limit)

InitConcurrent ==
  /\ store \in Stores
  /\ currentOrganizationId \in {constructorScope(o) : o \in OrganizationIds \cup {Null}}
  /\ calls = [c \in CallIds |-> idleCall]
  /\ prev = NoPrev
  /\ gen = idleGen
  /\ app = noApp

NextConcurrent ==
  \/ \E c \in CallIds, q \in ConcurrentQueries, l \in ConcurrentLimits :
       InvokeConcurrently(c, q, l)
  \/ \E c \in CallIds : PrimaryResponse(c)
  \/ \E c \in CallIds : FallbackResponse(c)

SpecConcurrent == InitConcurrent /\ [][NextConcurrent]_vars

\* ---- The set-super-admin and eligibility handlers over auth.users ----
\* The users that may register, and the requests that may be in progress.
UserIds == {"u1", "u2"}

RequestIds == {1, 2}

idleRequest ==
  [pc |-> "idle", kind |-> "none", caller |-> Null, status |-> 0, totalUsers |-> 0,
   canBecomeSuperAdmin |-> FALSE, wrote |-> FALSE, usersAtGrant |-> {}]

\* auth.users: the registered users, those whose raw_user_meta_data holds
\* is_admin: true and those whose user_metadata does.
noUsers ==
  [fn |-> "superAdmin", users |-> {}, rawAdmin |-> {}, metaAdmin |-> {},
   requests |-> [r \in RequestIds |-> idleRequest]]

\* res.status(code).json(...)
respond(request, code) == [request EXCEPT !.pc = "done", !.status = code]

\* allUsers?.users?.length || 0
totalUsers(users) == Cardinality(users)

\* totalUsers !== 1 of the handler, totalUsers === 1 of the eligibility check
soleUser(total) == total = 1

\* UPDATE auth.users SET raw_user_meta_data = ... || '{"is_admin": true}'
\* WHERE id = target_user_id
set_user_super_admin(rawAdmin, users, target_user_id) ==
  IF target_user_id \in users THEN rawAdmin \cup {target_user_id} ELSE rawAdmin

\* updateUserById(user.id, {user_metadata: {..., is_admin: true}})
updateUserById(metaAdmin, users, id) ==
  IF id \in users THEN metaAdmin \cup {id} ELSE metaAdmin

\* After await getUser(token): 401 on an invalid token; the eligibility check
\* answers at once for a user who is already admin.
afterGetUser(request, users, metaAdmin) ==
  IF request.caller \notin users THEN respond(request, 401)
  ELSE IF request.kind = "check" /\ request.caller \in metaAdmin THEN respond(request, 200)
  ELSE [request EXCEPT !.pc = "listUsers"]

\* After await listUsers(): 500 on an error; the handler answers 403 unless
\* exactly one user is listed; the eligibility check answers what it found.
afterListUsers(request, users, ok) ==
  LET listed == [request EXCEPT !.totalUsers = totalUsers(users)]
  IN IF ~ok THEN respond(request, 500)
     ELSE IF request.kind = "check"
     THEN respond([listed EXCEPT !.canBecomeSuperAdmin = soleUser(listed.totalUsers)], 200)
     ELSE IF ~soleUser(listed.totalUsers) THEN respond(listed, 403)
     ELSE [listed EXCEPT !.pc = "rpc"]

\* After await rpc('set_user_super_admin'): 500 on an error.
afterRpc(request, users, ok) ==
  IF ~ok THEN respond(request, 500)
  ELSE [request EXCEPT !.pc = "updateUserById", !.wrote = TRUE, !.usersAtGrant = users]

\* A user registers (a row of auth.users is inserted).
Register(u) ==
  /\ app.fn = "superAdmin"
  /\ u \notin app.users
  /\ app' = [app EXCEPT !.users = @ \cup {u}]
  /\ UNCHANGED <<store, currentOrganizationId, calls, prev, gen>>

\* POST with a bearer token: the handler runs to await getUser(token).
Post(r, kind, token) ==
  /\ app.fn = "superAdmin"
  /\ app.requests[r].pc = "idle"
  /\ app' = [app EXCEPT !.requests[r] =
                [idleRequest EXCEPT !.pc = "getUser", !.kind = kind, !.caller = token]]
  /\ UNCHANGED <<store, currentOrganizationId, calls, prev, gen>>

GetUserResponse(r) ==
  /\ app.fn = "superAdmin"
  /\ app.requests[r].pc = "getUser"
  /\ app' = [app EXCEPT !.requests[r] = afterGetUser(@, app.users, app.metaAdmin)]
  /\ UNCHANGED <<store, currentOrganizationId, calls, prev, gen>>

ListUsersResponse(r, ok) ==
  /\ app.fn = "superAdmin"
  /\ app.requests[r].pc = "listUsers"
  /\ app' = [app EXCEPT !.requests[r] = afterListUsers(@, app.users, ok)]
  /\ UNCHANGED <<store, currentOrganizationId, calls, prev, gen>>

\* The database runs set_user_super_admin and the handler goes on.
RpcResponse(r, ok) ==
  /\ app.fn = "superAdmin"
  /\ app.requests[r].pc = "rpc"
  /\ app' = [app EXCEPT
               !.rawAdmin = IF ok THEN set_user_super_admin(@, app.users, app.requests[r].caller)
                            ELSE @,
               !.requests[r] = afterRpc(@, app.users, ok)]
  /\ UNCHANGED <<store, currentOrganizationId, calls, prev, gen>>

\* updateUserById answers; on an error the handler only warns.
UpdateUserResponse(r, ok) ==
  /\ app.fn = "superAdmin"
  /\ app.requests[r].pc = "updateUserById"
  /\ app' = [app EXCEPT
               !.metaAdmin = IF ok THEN updateUserById(@, app.users, app.requests[r].caller)
                             ELSE @,
               !.requests[r] = [@ EXCEPT !.pc = "getUserById"]]
  /\ UNCHANGED <<store, currentOrganizationId, calls, prev, gen>>

\* getUserById answers: 500 on an error, else 200.
GetUserByIdResponse(r, ok) ==
  /\ app.fn = "superAdmin"
  /\ app.requests[r].pc = "getUserById"
  /\ app' = [app EXCEPT !.requests[r] = respond(@, IF ok THEN 200 ELSE 500)]
  /\ UNCHANGED <<store, currentOrganizationId, calls, prev, gen>>

\* The client takes the response.
TakeResponse(r) ==
  /\ app.fn = "superAdmin"
  /\ app.requests[r].pc = "done"
  /\ app' = [app EXCEPT !.requests[r] = idleRequest]
  /\ UNCHANGED <<store, currentOrganizationId, calls, prev, gen>>

InitAdmin ==
  /\ store = {}
  /\ currentOrganizationId = Null
  /\ calls = [c \in CallIds |-> idleCall]
  /\ prev = NoPrev
  /\ gen = idleGen
  /\ app = noUsers

NextAdmin ==
  \/ \E u \in UserIds : Register(u)
  \/ \E r \in RequestIds, k \in {"set", "check"}, t \in UserIds : Post(r, k, t)
  \/ \E r \in RequestIds : GetUserResponse(r)
  \/ \E r \in RequestIds, ok \in BOOLEAN : ListUsersResponse(r, ok)
  \/ \E r \in RequestIds, ok \in BOOLEAN : RpcResponse(r, ok)
  \/ \E r \in RequestIds, ok \in BOOLEAN : UpdateUserResponse(r, ok)
  \/ \E r \in RequestIds, ok \in BOOLEAN : GetUserByIdResponse(r, ok)
  \/ \E r \in RequestIds : TakeResponse(r)

SpecAdmin == InitAdmin /\ [][NextAdmin]_vars

\* ---- MultiTenantAuthProvider: loadUserOrganizations and its callers ----
\* The calls of loadUserOrganizations that may be in progress, and who calls.
LoadIds == {1, 2}

EffectCallers == {"initAuth", "onAuthStateChange"}

RenderCallers == {"createOrganization", "updateUserRole"}

idleLoad ==
  [pc |-> "idle", caller |-> "none", sawLoading |-> FALSE, overlapped |-> FALSE,
   queried |-> FALSE, changed |-> FALSE]

\* The rows of user_organizations the store may answer with.
Membership(org, role) == [organization_id |-> org, role |-> role]

OrgAnswers ==
  { <<>>, <<Membership("A", "admin")>>, <<Membership("B", "member"), Membership("A", "admin")>> }

\* The provider after its first render: useState(false) for
\* loadingOrganizations, no organizations. renderedLoading is the value of
\* loadingOrganizations the functions of the latest render have closed over.
mounted ==
  [fn |-> "auth", loadingOrganizations |-> FALSE, renderedLoading |-> FALSE,
   userOrganizations |-> <<>>, currentOrganization |-> Null, isOrgAdmin |-> FALSE,
   savedOrgId |-> Null, initAuthCalled |-> FALSE,
   loads |-> [l \in LoadIds |-> idleLoad]]

\* The value of loadingOrganizations the caller's loadUserOrganizations has
\* closed over: the effect runs once (deps []), so initAuth and the listener
\* hold the function of the first render; the others hold the latest one.
closedOverLoading(auth, caller) ==
  IF caller \in EffectCallers THEN FALSE ELSE auth.renderedLoading

\* A load is between its call and its return.
inProgress(load) == load.pc = "query"

\* targetOrg: the saved organization, else the first admin one, else the first.
targetOrg(orgs, savedOrgId) ==
  LET saved == {i \in DOMAIN orgs : orgs[i].organization_id = savedOrgId}
      admins == {i \in DOMAIN orgs : orgs[i].role = "admin"}
  IN IF savedOrgId # Null /\ saved # {} THEN orgs[minOf(saved)]
     ELSE IF admins # {} THEN orgs[minOf(admins)]
     ELSE orgs[1]

\* setUserOrganizations([]); setCurrentOrganization(null); setIsOrgAdmin(false)
clearOrganizations(auth) ==
  [auth EXCEPT !.userOrganizations = <<>>, !.currentOrganization = Null, !.isOrgAdmin = FALSE]

\* setUserOrganizations(transformedOrgs) and switchOrganization(targetOrg)
setOrganizations(auth, orgs) ==
  LET target == targetOrg(orgs, auth.savedOrgId)
  IN [auth EXCEPT !.userOrganizations = orgs, !.currentOrganization = target.organization_id,
                  !.isOrgAdmin = target.role = "admin", !.savedOrgId = target.organization_id]

\* loadUserOrganizations(userId) to its await: return at once if the
\* loadingOrganizations it closed over is true, else setLoadingOrganizations(true)
\* and the query. overlapped keeps whether another load was in progress.
loadStart(auth, l, caller) ==
  LET saw == closedOverLoading(auth, caller)
      over == \E o \in LoadIds : inProgress(auth.loads[o])
      load == [idleLoad EXCEPT !.caller = caller, !.sawLoading = saw, !.overlapped = over]
  IN IF saw THEN [auth EXCEPT !.loads[l] = [load EXCEPT !.pc = "done"]]
     ELSE [auth EXCEPT !.loadingOrganizations = TRUE,
                       !.loads[l] = [load EXCEPT !.pc = "query", !.queried = TRUE]]

\* After await Promise.race([queryPromise, timeoutPromise]): an error of the
\* query and the timeout clear the organizations, no rows too; rows are
\* set and the target organization is switched to. finally:
\* setLoadingOrganizations(false).
afterRace(auth, l, outcome, orgs) ==
  LET set == IF outcome = "rows" /\ orgs # <<>> THEN setOrganizations(auth, orgs)
             ELSE clearOrganizations(auth)
  IN [set EXCEPT !.loadingOrganizations = FALSE,
                 !.loads[l] = [@ EXCEPT !.pc = "done", !.changed = TRUE]]

\* initAuth finds a session and calls loadUserOrganizations.
InitAuth(l) ==
  /\ app.fn = "auth"
  /\ ~app.initAuthCalled
  /\ app.loads[l].pc = "idle"
  /\ app' = [loadStart(app, l, "initAuth") EXCEPT !.initAuthCalled = TRUE]
  /\ UNCHANGED <<store, currentOrganizationId, calls, prev, gen>>

\* The listener gets a session, or createOrganization or updateUserRole
\* has written its row: loadUserOrganizations is called.
CallLoad(l, caller) ==
  /\ app.fn = "auth"
  /\ app.loads[l].pc = "idle"
  /\ app' = loadStart(app, l, caller)
  /\ UNCHANGED <<store, currentOrganizationId, calls, prev, gen>>

\* The query answers, fails or is outrun by the timeout.
RaceSettles(l, outcome, orgs) ==
  /\ app.fn = "auth"
  /\ inProgress(app.loads[l])
  /\ app' = afterRace(app, l, outcome, orgs)
  /\ UNCHANGED <<store, currentOrganizationId, calls, prev, gen>>

\* The caller of a load that has returned goes on.
LoadReturns(l) ==
  /\ app.fn = "auth"
  /\ app.loads[l].pc = "done"
  /\ app' = [app EXCEPT !.loads[l] = idleLoad]
  /\ UNCHANGED <<store, currentOrganizationId, calls, prev, gen>>

\* The listener gets no session: the state is cleared.
SignedOut ==
  /\ app.fn = "auth"
  /\ app' = [clearOrganizations(app) EXCEPT !.savedOrgId = Null]
  /\ UNCHANGED <<store, currentOrganizationId, calls, prev, gen>>

\* React renders the provider again after a change of state: the functions
\* of this render close over the current loadingOrganizations.
Render ==
  /\ app.fn = "auth"
  /\ app.renderedLoading # app.loadingOrganizations
  /\ app' = [app EXCEPT !.renderedLoading = app.loadingOrganizations]
  /\ UNCHANGED <<store, currentOrganizationId, calls, prev, gen>>

InitAuthProvider ==
  /\ store = {}
  /\ currentOrganizationId = Null
  /\ calls = [c \in CallIds |-> idleCall]
  /\ prev = NoPrev
  /\ gen = idleGen
  /\ app = mounted

NextAuthProvider ==
  \/ \E l \in LoadIds : InitAuth(l)
  \/ \E l \in LoadIds, caller \in RenderCallers \cup {"onAuthStateChange"} : CallLoad(l, caller)
  \/ \E l \in LoadIds, outcome \in {"error", "timeout"} : RaceSettles(l, outcome, <<>>)
  \/ \E l \in LoadIds, orgs \in OrgAnswers : RaceSettles(l, "rows", orgs)
  \/ \E l \in LoadIds : LoadReturns(l)
  \/ SignedOut
  \/ Render

SpecAuthProvider == InitAuthProvider /\ [][NextAuthProvider]_vars
\* ------------------------------------------------------------------ claims
\* The call has returned or thrown.
Done(c) == calls[c].pc = "done"

\* Every query of the call was built while the instance's scope was org.
ScopedTo(call, org) == \A i \in DOMAIN call.scopes : call.scopes[i] = org

ResultDocs(c) == {calls[c].result[i] : i \in DOMAIN calls[c].result}

\* C1: tenant isolation. Every document returned by a call whose queries
\* were all built under the scope of organization A belongs to A, whichever
\* path (scored primary, fallback word match, fallback recent documents)
\* produced the result.
C1_TenantIsolation ==
  \A c \in CallIds : \A org \in OrganizationIds :
    (Done(c) /\ ScopedTo(calls[c], org)) =>
      \A d \in ResultDocs(c) : d.organization_id = org

\* C1 witness: a call scoped to an organization returns a document on the
\* fallback word-match path while the store holds an active document of
\* another organization that matches the same fallback filter.
C1_Witness ==
  \E c \in CallIds : \E org \in OrganizationIds :
    /\ Done(c) /\ ScopedTo(calls[c], org)
    /\ calls[c].path = "words" /\ calls[c].result # <<>>
    /\ \E d \in store :
         /\ d.is_active /\ d.organization_id \in OrganizationIds \ {org}
         /\ \E k \in fallbackConditions(fallbackWords(calls[c].query)) : conditionHolds(d, k)

\* The query's keywords match documents of the store, all of them inactive.
KeywordsMatchOnlyInactive(call) ==
  LET hits == {d \in store : \E k \in searchConditions(call.keywords) : conditionHolds(d, k)}
  IN hits # {} /\ \A d \in hits : ~d.is_active

C3_FailureReturnsEmpty ==
  \A c \in CallIds :
    Done(c) =>
      /\ calls[c].status = "returned"
      /\ calls[c].failed => calls[c].result = <<>>

\* C3 witness: the primary query answered no row, the fallback word-match
\* query failed, and the call has returned.
C3_Witness ==
  \E c \in CallIds :
    /\ Done(c) /\ calls[c].failed
    /\ Len(calls[c].issued) = 2 /\ calls[c].issued[2].kind = "words"
    /\ calls[c].status = "returned"

\* C4: a retrieval failure never aborts generateResponse. After a retrieval
\* during which the store failed, the provider is called with an empty
\* context, and a returned outcome reports ragFound = false and no
\* ragDocuments; generateResponse fails only by an error of the provider's
\* call or by an unsupported provider.
C4_RetrievalFailureNeverAborts ==
  /\ gen.status = "failed" => gen.failure \in {"provider", "unsupported"}
  /\ (gen.pc \in {"provider", "done"} /\ gen.retrievalFailed) =>
       /\ gen.context = <<>>
       /\ gen.provider \in SupportedProviders => gen.called
       /\ gen.status = "returned" => (~gen.ragFound /\ gen.ragDocuments = <<>>)

\* C4 witness: the store failed during the retrieval, the provider was
\* called and generateResponse has returned.
C4_Witness ==
  /\ gen.pc = "done" /\ gen.status = "returned"
  /\ gen.retrievalFailed /\ gen.called

\* C5: the returned sequence is never longer than the limit, on every path.
C5_AtMostLimit ==
  \A c \in CallIds : Done(c) => Len(calls[c].result) <= calls[c].limit

\* C5 witness: on the scored path the store had more matching rows than the
\* limit to answer the over-fetching primary query with, and the call
\* returned exactly limit documents.
C5_Witness ==
  \E c \in CallIds :
    /\ Done(c) /\ calls[c].path = "scored"
    /\ calls[c].limit >= 1 /\ Len(calls[c].result) = calls[c].limit
    /\ Cardinality(matchingRows(store, calls[c].issued[1])) > calls[c].limit

\* C6: the empty-keyword short circuit. A call whose query has no keywords
\* has returned the empty sequence and has sent no query to the store.
C6_NoKeywordsNoQuery ==
  \A c \in CallIds :
    (calls[c].pc # "idle" /\ extractKeywords(calls[c].query) = <<>>) =>
      /\ Done(c) /\ calls[c].status = "returned" /\ calls[c].result = <<>>
      /\ calls[c].issued = <<>> /\ calls[c].inflight = {}

\* C6 witness: a call with a query of stop words only has returned.
C6_Witness ==
  \E c \in CallIds :
    /\ Done(c) /\ calls[c].query # <<>>
    /\ extractKeywords(calls[c].query) = <<>>
    /\ calls[c].path = "noKeywords"

\* C7: a call sends at most two queries, one after the other: the primary
\* first, a fallback query only once the primary has been answered, never
\* two in flight, never a third.
C7_AtMostTwoSequentialQueries ==
  \A c \in CallIds :
    /\ Len(calls[c].issued) <= 2
    /\ Cardinality(calls[c].inflight) <= 1
    /\ Len(calls[c].issued) <= calls[c].answered + 1
    /\ \A i \in DOMAIN calls[c].issued :
         calls[c].issued[i].kind = "primary" <=> i = 1

\* C7 witness: the primary has been answered and the fallback query is the
\* one query in flight.
C7_Witness ==
  \E c \in CallIds :
    /\ calls[c].pc = "fallback" /\ Len(calls[c].issued) = 2
    /\ calls[c].answered = 1 /\ calls[c].inflight = {calls[c].issued[2]}

\* The place of a document in the scorer's input.
InputIndex(d) == CHOOSE i \in DOMAIN app.documents : app.documents[i] = d

\* C8: the scorer's output is a permutation of its input, sorted by
\* relevanceScore descending, documents of equal score in input order.
C8_SortedStablePermutation ==
  (app.fn = "scoreDocumentRelevance" /\ app.done) =>
    /\ Len(app.out) = Len(app.documents)
    /\ {withoutScore(app.out[i]) : i \in DOMAIN app.out} = Range(app.documents)
    /\ \A i, j \in DOMAIN app.out :
         i < j =>
           /\ app.out[i].relevanceScore >= app.out[j].relevanceScore
           /\ app.out[i].relevanceScore = app.out[j].relevanceScore =>
                InputIndex(withoutScore(app.out[i])) < InputIndex(withoutScore(app.out[j]))

\* C8 witness: the scorer moved a document forward past lower-scored ones
\* and kept two documents of equal score in their input order.
C8_Witness ==
  /\ app.fn = "scoreDocumentRelevance" /\ app.done
  /\ \E i, j \in DOMAIN app.out :
       /\ i < j
       /\ app.out[i].relevanceScore > app.out[j].relevanceScore
       /\ InputIndex(withoutScore(app.out[i])) > InputIndex(withoutScore(app.out[j]))
  /\ \E i, j \in DOMAIN app.out :
       i < j /\ app.out[i].relevanceScore = app.out[j].relevanceScore

\* None of the six signals: the full query neither in the title nor in the
\* content, no keyword in the title, the content or a tag, and a content of
\* 1000 characters or more.
NoSignal(doc, keywords, originalQuery) ==
  /\ ~includes(toLowerCase(doc.title), toLowerCase(originalQuery))
  /\ ~contentIncludes(contentToLowerCase(doc.content), toLowerCase(originalQuery))
  /\ \A i \in DOMAIN keywords :
       /\ ~includes(toLowerCase(doc.title), keywords[i])
       /\ ~contentIncludes(contentToLowerCase(doc.content), keywords[i])
       /\ \A t \in DOMAIN doc.tags : ~includes(toLowerCase(doc.tags[t]), keywords[i])
  /\ contentLength(doc.content) >= BrevityLength

\* C9: every relevanceScore is an integer >= 0; a document with none of the
\* six signals gets exactly 0; and every input document, whatever its score,
\* is in the scorer's output.
C9_ScoreNonNegative ==
  (app.fn = "scoreDocumentRelevance" /\ app.done) =>
    /\ \A i \in DOMAIN app.out :
         /\ app.out[i].relevanceScore \in Nat
         /\ NoSignal(withoutScore(app.out[i]), app.keywords, app.originalQuery) =>
              app.out[i].relevanceScore = 0
    /\ \A i \in DOMAIN app.documents :
         \E j \in DOMAIN app.out : withoutScore(app.out[j]) = app.documents[i]

\* C9 witness: a document with none of the six signals is in the output,
\* with score 0, of a scoring with keywords, next to a document that scored.
C9_Witness ==
  /\ app.fn = "scoreDocumentRelevance" /\ app.done /\ app.keywords # <<>>
  /\ \E i, j \in DOMAIN app.out :
       /\ NoSignal(withoutScore(app.out[i]), app.keywords, app.originalQuery)
       /\ app.out[i].relevanceScore = 0
       /\ app.out[j].relevanceScore > 0

\* C10 as stated: idempotence of retrieval. A call repeated with the same
\* query and limit under the same scope, the store unchanged and answering
\* every query of both calls, returns the sequence the first call returned.
C10_Idempotent ==
  \A c \in CallIds :
    ( /\ Done(c) /\ prev.valid
      /\ prev.query = calls[c].query /\ prev.limit = calls[c].limit
      /\ ~prev.failed /\ ~calls[c].failed
      /\ \E org \in ContextIds : ScopedTo(prev, org) /\ ScopedTo(calls[c], org) )
    => calls[c].result = prev.result

\* C11 as stated: within one call the fallback query is sent with the query,
\* the limit and the tenant scope of that call's primary query, whatever
\* setOrganizationContext calls run between the two (the scope is read once
\* per call).
C11_FallbackSameScope ==
  \A c \in CallIds :
    Len(calls[c].issued) = 2 =>
      /\ calls[c].scopes[2] = calls[c].scopes[1]
      /\ calls[c].issued[2].org = calls[c].issued[1].org
      /\ calls[c].issued[2].limit = calls[c].limit
      /\ calls[c].issued[2] \in Range(fallbackQueries(calls[c].scopes[1], calls[c].query,
                                                      calls[c].limit))

\* C12 as stated: the caller can tell an engine malfunction from "no relevant
\* documents". The outcome (returned or thrown, and the value) of a call
\* during which a store query failed differs from the outcome of the call
\* before it, which the store answered without error and with no document.
C12_FailureDistinguishable ==
  \A c \in CallIds :
    ( /\ Done(c) /\ calls[c].failed
      /\ prev.valid /\ ~prev.failed /\ prev.result = <<>> )
    => <<calls[c].status, calls[c].result>> # <<prev.status, prev.result>>

\* The query as extractKeywords cleans it: lower case, punctuation blanked.
CleanQuery == removePunctuation(toLowerCase(app.query))

\* Where the tokens of a cleaned query s start: a character that is no
\* whitespace, at the start or behind whitespace.
TokenStarts(s) ==
  {i \in DOMAIN s : ~isSpaceChar(s[i]) /\ (i = 1 \/ isSpaceChar(s[i - 1]))}

\* The token that starts at i: the characters up to the next whitespace.
TokenAt(s, i) ==
  LET ends == {j \in i..Len(s) : j = Len(s) \/ isSpaceChar(s[j + 1])}
  IN SubSeq(s, i, CHOOSE j \in ends : \A k \in ends : j <= k)

\* The tokens of s, by their start.
Tokens(s) == [i \in TokenStarts(s) |-> TokenAt(s, i)]

\* The starts of the tokens that are neither short nor stop words.
SurvivingStarts(tokens) ==
  {i \in DOMAIN tokens : Len(tokens[i]) > 2 /\ tokens[i] \notin stopWords}

\* C13: a query whose tokens (lower case, punctuation removed) are all stop
\* words or of length <= 2, and the empty query, have no keywords; and no
\* keyword of any query has length <= 2 or is a stop word.
C13_NoShortNoStopWord ==
  (app.fn = "extractKeywords" /\ app.done) =>
    LET tokens == Tokens(CleanQuery)
    IN /\ (\A i \in DOMAIN tokens : tokens[i] \in stopWords \/ Len(tokens[i]) <= 2) =>
            app.out = <<>>
       /\ app.query = <<>> => app.out = <<>>
       /\ \A k \in DOMAIN app.out : Len(app.out[k]) > 2 /\ app.out[k] \notin stopWords

\* C13 witness: a query of several tokens, one a stop word, one of length
\* two, one cut short by punctuation, has got no keywords.
C13_Witness ==
  /\ app.fn = "extractKeywords" /\ app.done /\ app.out = <<>>
  /\ LET tokens == Tokens(CleanQuery)
     IN \E i, j \in DOMAIN tokens : tokens[i] \in stopWords /\ Len(tokens[j]) = 2
  /\ \E i \in DOMAIN app.query : app.query[i] = "'"

\* C14: at most 10 keywords, and they are the first 10 surviving tokens, in
\* their order in the query, a token that comes twice being kept twice.
C14_FirstTenInOrder ==
  (app.fn = "extractKeywords" /\ app.done) =>
    LET tokens == Tokens(CleanQuery)
        surviving == SurvivingStarts(tokens)
    IN /\ Len(app.out) <= 10
       /\ Len(app.out) = Min(10, Cardinality(surviving))
       /\ \A k \in DOMAIN app.out :
            \E i \in surviving :
              /\ Cardinality({j \in surviving : j < i}) = k - 1
              /\ app.out[k] = tokens[i]

\* C14 witness: a query with more than 10 surviving tokens got 10 keywords,
\* one of them twice, and a stop word of the query is not among them.
C14_Witness ==
  /\ app.fn = "extractKeywords" /\ app.done /\ Len(app.out) = 10
  /\ LET tokens == Tokens(CleanQuery)
     IN /\ Cardinality(SurvivingStarts(tokens)) > 10
        /\ \E i \in DOMAIN tokens : tokens[i] \in stopWords
  /\ \E k, l \in DOMAIN app.out : k < l /\ app.out[k] = app.out[l]

\* The characters of a content, the fill spelled out.
FlatContent(content) == content.text \o Fill(content.pad)

\* The characters of a long string.
RECURSIVE FlatRope(_)
FlatRope(rope) ==
  IF rope = <<>> THEN <<>> ELSE FlatContent(Head(rope)) \o FlatRope(Tail(rope))

\* What stands before the content in the k-th block.
BlockHead(doc, k) ==
  <<"D","o","c","u","m","e","n","t"," ">> \o toDecimal(k) \o <<":","\n","T","i","t","l","e",":"," ">> \o doc.title \o <<"\n","C","o","n","t","e","n","t",":"," ">>

\* The number of characters the block shows of a content: all of it, or
\* 1500 and the three of the truncation marker.
ShownLength(content) ==
  IF contentLength(content) <= 1500 THEN contentLength(content) ELSE 1500 + 3

\* The line of tags that ends a block.
TagsLine(doc) ==
  IF Len(doc.tags) > 0 THEN <<"T","a","g","s",":"," ">> \o joinStrings(doc.tags, <<","," ">>) ELSE <<>>

BlockLength(doc, k) ==
  Len(BlockHead(doc, k)) + ShownLength(doc.content) + 1 + Len(TagsLine(doc))

PreambleLength ==
  Len(<<"Y","o","u"," ","h","a","v","e"," ","a","c","c","e","s","s"," ","t","o"," ","t","h","e"," ","f","o","l","l","o","w","i","n","g"," ","r","e","l","e","v","a","n","t"," ","d","o","c","u","m","e","n","t","a","t","i","o","n","."," ","P","l","e","a","s","e"," ","u","s","e"," ","t","h","i","s"," ","i","n","f","o","r","m","a","t","i","o","n"," ","t","o"," ","p","r","o","v","i","d","e"," ","a","c","c","u","r","a","t","e"," ","a","n","d"," ","h","e","l","p","f","u","l"," ","r","e","s","p","o","n","s","e","s",":","\n","\n">>)

PostambleLength ==
  Len(<<"\n","\n","I","M","P","O","R","T","A","N","T",":"," ","W","h","e","n"," ","a","n","s","w","e","r","i","n","g",","," ","r","e","f","e","r","e","n","c","e"," ","t","h","e"," ","s","p","e","c","i","f","i","c"," ","d","o","c","u","m","e","n","t","s"," ","a","b","o","v","e"," ","w","h","e","n"," ","r","e","l","e","v","a","n","t"," ","a","n","d"," ","p","r","o","v","i","d","e"," ","a","c","c","u","r","a","t","e"," ","i","n","f","o","r","m","a","t","i","o","n"," ","b","a","s","e","d"," ","o","n"," ","t","h","e"," ","d","o","c","u","m","e","n","t","a","t","i","o","n"," ","p","r","o","v","i","d","e","d",".">>)

SeparatorLength == Len(<<"\n","\n","-","-","-","\n","\n">>)

\* The number of characters before the k-th block of the context.
RECURSIVE BlockOffset(_, _)
BlockOffset(documents, k) ==
  IF k = 1 THEN PreambleLength
  ELSE BlockOffset(documents, k - 1) + BlockLength(documents[k - 1], k - 1) + SeparatorLength

\* C15: context truncation. The block of a document shows a content of at
\* most 1500 characters in full, the line break before the tags following it
\* with no truncation marker; of a longer content it shows exactly the first
\* 1500 characters, then the marker "...", then the line break: no later
\* character of the content.
C15_ContextTruncation ==
  (app.fn = "generateContext" /\ app.done) =>
    LET text == FlatRope(app.out)
    IN \A k \in DOMAIN app.documents :
         LET content == FlatContent(app.documents[k].content)
             from == BlockOffset(app.documents, k) + Len(BlockHead(app.documents[k], k))
             rest == SubSeq(text, from + 1, Len(text))
         IN IF Len(content) <= 1500
              THEN /\ SubSeq(rest, 1, Len(content)) = content
                   /\ SubSeq(rest, Len(content) + 1, Len(content) + 1 + Len(TagsLine(app.documents[k])))
                        = <<"\n">> \o TagsLine(app.documents[k])
              ELSE /\ SubSeq(rest, 1, 1500) = SubSeq(content, 1, 1500)
                   /\ SubSeq(rest, 1501, 1503) = <<".",".",".">>
                   /\ SubSeq(rest, 1504, 1504 + Len(TagsLine(app.documents[k])))
                        = <<"\n">> \o TagsLine(app.documents[k])

\* C15 witness: one context with a content of exactly 1500 characters shown
\* in full and a content of 1501 characters whose last character, unlike
\* its others, is nowhere in the context.
C15_Witness ==
  /\ app.fn = "generateContext" /\ app.done
  /\ \E k \in DOMAIN app.documents : contentLength(app.documents[k].content) = 1500
  /\ \E k \in DOMAIN app.documents :
       /\ contentLength(app.documents[k].content) = 1501
       /\ \E i \in DOMAIN app.documents[k].content.text :
            app.documents[k].content.text[i] = "Q"
  /\ \A i \in DOMAIN app.out : \A j \in DOMAIN app.out[i].text : app.out[i].text[j] # "Q"

\* C16: the context is the empty string exactly when there is no document;
\* otherwise it is not empty and wraps one block per document, in the order
\* of the documents: the k-th block starts with "Document k:" and the k-th
\* title, the blocks follow one another between the opening and the closing
\* text, and nothing else is in the context.
C16_EmptyIffNoDocuments ==
  (app.fn = "generateContext" /\ app.done) =>
    LET text == FlatRope(app.out)
        n == Len(app.documents)
    IN /\ text = <<>> <=> n = 0
       /\ n > 0 =>
            /\ Len(text) = BlockOffset(app.documents, n) + BlockLength(app.documents[n], n)
                             + PostambleLength
            /\ \A k \in 1..n :
                 SubSeq(text, BlockOffset(app.documents, k) + 1,
                        BlockOffset(app.documents, k) + Len(BlockHead(app.documents[k], k)))
                   = BlockHead(app.documents[k], k)

\* C16 witness: a context of three blocks for three different documents.
C16_Witness ==
  /\ app.fn = "generateContext" /\ app.done /\ Len(app.documents) = 3
  /\ ropeLength(app.out) > 0
  /\ \A i, j \in DOMAIN app.documents : i # j => app.documents[i] # app.documents[j]

\* The place of the document with the id in the scorer's output.
OutIndex(id) == CHOOSE i \in DOMAIN app.out : app.out[i].id = id

\* C17 as stated: in the scenario the guide (title "Password Reset Guide",
\* content matching both keywords) gets a relevanceScore >= 100 and is ranked
\* above the document that mentions "password" once in 2000 characters.
C17_Original ==
  (app.fn = "scoreDocumentRelevance" /\ app.done) =>
    /\ app.keywords = << <<"r","e","s","e","t">>, <<"p","a","s","s","w","o","r","d">> >>
    /\ app.out[OutIndex("guide")].relevanceScore >= 100
    /\ OutIndex("guide") < OutIndex("mention")

\* C17 amended: the keywords are ["reset", "password"]; the guide gets at
\* least 26 (two keywords in the title, 10 each, and in the content, 3 each),
\* which is below 100 unless its content also holds the whole query; the
\* other document gets 3; and the guide is ranked above it.
C17_GuideRankedFirst ==
  (app.fn = "scoreDocumentRelevance" /\ app.done) =>
    LET guide == app.out[OutIndex("guide")]
        mention == app.out[OutIndex("mention")]
    IN /\ app.keywords = << <<"r","e","s","e","t">>, <<"p","a","s","s","w","o","r","d">> >>
       /\ guide.relevanceScore >= 26
       /\ guide.relevanceScore >= 100 =>
            contentIncludes(contentToLowerCase(guide.content), toLowerCase(app.originalQuery))
       /\ mention.relevanceScore = 3
       /\ OutIndex("guide") < OutIndex("mention")

\* C17 witness: the guide, second in the input and without tags, has got 31
\* and stands first in the output.
C17_Witness ==
  /\ app.fn = "scoreDocumentRelevance" /\ app.done
  /\ app.documents[2].id = "guide" /\ app.documents[2].tags = <<>>
  /\ app.out[1].id = "guide" /\ app.out[1].relevanceScore = 31

\* The characters of a content in lower case (the fill is lower case).
LowerContent(content) == toLowerCase(content.text) \o Fill(content.pad)

\* The points of the keywords, one keyword after the other: 10 for the
\* title, 3 for the content, 15 for the tags however many of them match.
RECURSIVE KeywordPoints(_, _, _, _)
KeywordPoints(title, content, tags, keywords) ==
  IF keywords = <<>> THEN 0
  ELSE (IF includes(title, Head(keywords)) THEN 10 ELSE 0)
       + (IF includes(content, Head(keywords)) THEN 3 ELSE 0)
       + (IF \E t \in DOMAIN tags : includes(toLowerCase(tags[t]), Head(keywords))
            THEN 15 ELSE 0)
       + KeywordPoints(title, content, tags, Tail(keywords))

\* C19: the relevanceScore of a document is the sum of 100 if its title holds
\* the whole query, 50 if its content does, the points of the keywords, and
\* 5 if its content is shorter than 1000 characters (all but the length
\* compared in lower case), and of nothing else.
C19_ScoreIsTheSum ==
  (app.fn = "scoreDocumentRelevance" /\ app.done) =>
    \A i \in DOMAIN app.out :
      LET doc == app.out[i]
          title == toLowerCase(doc.title)
          content == LowerContent(doc.content)
          query == toLowerCase(app.originalQuery)
      IN doc.relevanceScore =
           (IF includes(title, query) THEN 100 ELSE 0)
           + (IF includes(content, query) THEN 50 ELSE 0)
           + KeywordPoints(title, content, doc.tags, app.keywords)
           + (IF Len(content) < 1000 THEN 5 ELSE 0)

\* C19 witness: a keyword given twice, held by two tags of a document that
\* has it neither in its title nor in its content: 15 for each of the two
\* keywords and 5 for the short content.
C19_Witness ==
  /\ app.fn = "scoreDocumentRelevance" /\ app.done
  /\ Len(app.keywords) = 2 /\ app.keywords[1] = app.keywords[2]
  /\ \E i \in DOMAIN app.out :
       /\ Cardinality({t \in DOMAIN app.out[i].tags :
                         includes(toLowerCase(app.out[i].tags[t]), app.keywords[1])}) >= 2
       /\ app.out[i].relevanceScore = 35

\* The candidates of the call that are not in its result.
NotReturned(c) ==
  {i \in DOMAIN calls[c].fetched :
     \A j \in DOMAIN calls[c].result : withoutScore(calls[c].result[j]) # calls[c].fetched[i]}

\* C20: on the primary path (the store answered with at least one
\* candidate) the store was asked for at most 2*limit candidates, the result
\* is the first limit elements of the scorer's output over the candidates,
\* sorted by score descending, no returned document scores less than a
\* candidate left out, and no fallback query was sent.
C20_TopOfScoredCandidates ==
  \A c \in CallIds :
    (Done(c) /\ calls[c].path = "scored") =>
      /\ calls[c].fetched # <<>>
      /\ calls[c].issued[1].limit = 2 * calls[c].limit
      /\ Len(calls[c].fetched) <= 2 * calls[c].limit
      /\ calls[c].result =
           SubSeq(scoreDocumentRelevance(calls[c].fetched, calls[c].keywords, calls[c].query),
                  1, Min(calls[c].limit, Len(calls[c].fetched)))
      /\ \A i, j \in DOMAIN calls[c].result :
           i < j => calls[c].result[i].relevanceScore >= calls[c].result[j].relevanceScore
      /\ \A j \in DOMAIN calls[c].result : \A i \in NotReturned(c) :
           calls[c].result[j].relevanceScore
             >= relevanceScore(calls[c].fetched[i], calls[c].keywords, calls[c].query)
      /\ Len(calls[c].issued) = 1

\* C20 witness: the store answered with 2*limit candidates, the call returned
\* limit of them, and a candidate left out, with a lower score, was before
\* a returned one in the store's answer.
C20_Witness ==
  \E c \in CallIds :
    /\ Done(c) /\ calls[c].path = "scored" /\ calls[c].limit >= 1
    /\ Len(calls[c].fetched) = 2 * calls[c].limit
    /\ Len(calls[c].result) = calls[c].limit
    /\ \E i \in NotReturned(c) : \E j \in DOMAIN calls[c].fetched :
         /\ i < j /\ j \notin NotReturned(c)
         /\ relevanceScore(calls[c].fetched[i], calls[c].keywords, calls[c].query)
              < relevanceScore(calls[c].fetched[j], calls[c].keywords, calls[c].query)

\* The active documents of the store in the scope org (every active
\* document when org is no scope).
InScopeActive(org) ==
  {d \in store : d.is_active /\ (truthy(org) => d.organization_id = org)}

\* The filter of the call's primary query matches no document of the store.
PrimaryMatchedNothing(call) ==
  call.issued # <<>> /\ matchingRows(store, call.issued[1]) = {}

\* C18: when the primary filter matches no document and the store holds 3
\* active documents in the call's scope, the call returns between 0 and
\* min(limit, 3) documents, all of them among those 3, by the fallback path:
\* unless the store failed to answer the primary query a second query was
\* sent, nothing was scored, and the documents are returned as the store
\* answered, with no relevanceScore.
C18_FallbackOverThreeDocuments ==
  \A c \in CallIds : \A org \in ContextIds :
    ( /\ Done(c) /\ ScopedTo(calls[c], org) /\ PrimaryMatchedNothing(calls[c])
      /\ Cardinality(InScopeActive(org)) = 3 )
    => /\ Len(calls[c].result) <= Min(calls[c].limit, 3)
       /\ ResultDocs(c) \subseteq InScopeActive(org)
       /\ calls[c].path \in {"words", "recent", "fallbackError", "primaryError"}
       /\ calls[c].path # "primaryError" =>
            Len(calls[c].issued) = 2 /\ calls[c].issued[2].kind \in {"words", "recent"}
       /\ calls[c].fetched = <<>>
       /\ \A d \in ResultDocs(c) : "relevanceScore" \notin DOMAIN d

\* C18 witness: a call with limit 5 over a store with 3 active documents in
\* its scope and a fourth document out of it; the primary matched nothing
\* and the fallback returned the 3.
C18_Witness ==
  \E c \in CallIds : \E org \in ContextIds :
    /\ Done(c) /\ ScopedTo(calls[c], org) /\ PrimaryMatchedNothing(calls[c])
    /\ Cardinality(InScopeActive(org)) = 3 /\ Cardinality(store) = 4
    /\ calls[c].limit = 5 /\ Len(calls[c].result) = 3

\* The primary query of the call was answered, without error and with no row.
PrimaryEmpty(call) ==
  Len(call.answers) >= 1 /\ ~call.answers[1].error /\ call.answers[1].rows = 0

\* C21: a call sends a fallback query if and only if its primary query was
\* answered without error and with no candidate. A call whose primary query
\* failed has sent no fallback query and has returned the empty sequence; a
\* call whose primary query brought a candidate has sent no fallback query.
C21_FallbackIffPrimaryEmpty ==
  \A c \in CallIds :
    /\ Len(calls[c].issued) >= 2 <=> PrimaryEmpty(calls[c])
    /\ (Len(calls[c].answers) >= 1 /\ calls[c].answers[1].error) =>
         /\ Len(calls[c].issued) = 1 /\ Done(c)
         /\ calls[c].status = "returned" /\ calls[c].result = <<>>
    /\ (Len(calls[c].answers) >= 1 /\ calls[c].answers[1].rows >= 1) =>
         Len(calls[c].issued) = 1 /\ Done(c)

\* C21 witness: a call whose primary query failed has returned the empty
\* sequence over a store that holds an active document its fallback words
\* match, and only the primary query was sent.
C21_Witness ==
  \E c \in CallIds :
    /\ Done(c) /\ Len(calls[c].answers) = 1 /\ calls[c].answers[1].error
    /\ Len(calls[c].issued) = 1 /\ calls[c].result = <<>>
    /\ \E d \in store :
         /\ d.is_active
         /\ \E k \in fallbackConditions(fallbackWords(calls[c].query)) : conditionHolds(d, k)

\* The document passes the disjunctive filter as the specification words it:
\* a keyword is a substring of its title or of its content, or one of its
\* tags, letter case aside.
PassesKeywordFilter(d, keywords) ==
  LET title == toLowerCase(d.title)
      content == LowerContent(d.content)
  IN \E i \in DOMAIN keywords :
       \/ includes(title, keywords[i])
       \/ includes(content, keywords[i])
       \/ \E t \in DOMAIN d.tags : toLowerCase(d.tags[t]) = keywords[i]

\* C22: every document a call returns on the primary path has a keyword of
\* the call in its title or in its content (as a substring, letter case
\* aside) or among its tags (as a whole tag, letter case aside).
C22_PrimaryResultsPassFilter ==
  \A c \in CallIds :
    (Done(c) /\ calls[c].path = "scored") =>
      \A i \in DOMAIN calls[c].result :
        PassesKeywordFilter(calls[c].result[i], calls[c].keywords)

LettersAndDigits == Range(UpperChars) \cup Range(LowerChars) \cup Range(DigitChars)

\* C23: in extractKeywords every character of the lower-cased query that is
\* not a letter, a digit or whitespace separates words, so every character
\* of every keyword returned is a letter or a digit.
C23_KeywordsOfLettersAndDigits ==
  (app.fn = "extractKeywords" /\ app.done) =>
    \A k \in DOMAIN app.out :
      \A i \in DOMAIN app.out[k] : app.out[k][i] \in LettersAndDigits

\* The raw query has no whitespace-separated word of more than three
\* characters.
NoLongWord(query) ==
  LET words == splitWhitespace(query)
  IN \A i \in DOMAIN words : Len(words[i]) <= 3

\* The store answered the call's fallback query with rows.
FallbackAnswered(call) ==
  Len(call.issued) = 2 /\ Len(call.answers) = 2 /\ ~call.answers[2].error

\* C24: a call whose fallback ran on a raw query without a word of more than
\* three characters returns, when the store answers, the limit most recently
\* created active documents of its scope (all of them when there are fewer),
\* most recent first, with no relevanceScore, whether they match the query
\* or not.
C24_RecentDocuments ==
  \A c \in CallIds : \A org \in ContextIds :
    ( /\ Done(c) /\ ScopedTo(calls[c], org) /\ FallbackAnswered(calls[c])
      /\ NoLongWord(calls[c].query) )
    => LET r == calls[c].result
           pool == InScopeActive(org)
       IN /\ calls[c].path = "recent"
          /\ Len(r) = Min(calls[c].limit, Cardinality(pool))
          /\ \A i \in DOMAIN r : r[i] \in pool
          /\ \A i, j \in DOMAIN r : i < j =>
               r[i] # r[j] /\ r[i].created_at >= r[j].created_at
          /\ \A d \in pool : (\A i \in DOMAIN r : r[i] # d) =>
               \A i \in DOMAIN r : r[i].created_at >= d.created_at
          /\ \A i \in DOMAIN r : "relevanceScore" \notin DOMAIN r[i]

\* C24 witness: a call with limit 2 returned the two most recent of three or
\* more active documents of its scope, the first created after the second,
\* and neither holds a word of the query in its title or content.
C24_Witness ==
  \E c \in CallIds : \E org \in ContextIds :
    /\ Done(c) /\ ScopedTo(calls[c], org) /\ FallbackAnswered(calls[c])
    /\ NoLongWord(calls[c].query) /\ calls[c].query # <<>>
    /\ calls[c].limit = 2 /\ Len(calls[c].result) = 2
    /\ Cardinality(InScopeActive(org)) >= 3
    /\ calls[c].result[1].created_at > calls[c].result[2].created_at
    /\ \A i \in 1..2 :
         /\ ~ilikeContains(calls[c].result[i].title, calls[c].query)
         /\ ~contentIlikeContains(calls[c].result[i].content, calls[c].query)

\* The whitespace-separated tokens of the lower-cased raw query that are
\* longer than three characters.
LongWords(query) ==
  LET words == splitWhitespace(toLowerCase(query))
  IN {words[i] : i \in {j \in DOMAIN words : Len(words[j]) > 3}}

\* The title or the content of the document contains the word.
HoldsWord(d, word) ==
  includes(toLowerCase(d.title), word) \/ includes(LowerContent(d.content), word)

\* C25: a call whose fallback ran on a raw query with a word of more than
\* three characters returns, when the store answers, at most limit
\* documents, each holding one of these words (stop words among them) in its
\* title or content, as many as the store delivered, with no relevanceScore.
C25_WordMatch ==
  \A c \in CallIds : \A org \in ContextIds :
    ( /\ Done(c) /\ ScopedTo(calls[c], org) /\ FallbackAnswered(calls[c])
      /\ ~NoLongWord(calls[c].query) )
    => LET r == calls[c].result
           words == LongWords(calls[c].query)
       IN /\ calls[c].path = "words"
          /\ \A i \in DOMAIN r : \E w \in words : HoldsWord(r[i], w)
          /\ Len(r) <= calls[c].limit
          /\ Len(r) = calls[c].answers[2].rows
          /\ \A i \in DOMAIN r : "relevanceScore" \notin DOMAIN r[i]

\* C26: retrieval reads. No step of retrieveRelevantDocuments,
\* searchDocuments, testRAGSearch or generateContext changes the table of
\* documents, and a step that changes the scope of the instance is no step
\* of any of them: it leaves every call and every outcome as it was (it is
\* a call of setOrganizationContext).
C26_ReadOnly ==
  [][ /\ store' = store
      /\ currentOrganizationId' # currentOrganizationId => UNCHANGED <<calls, app, gen, prev>>
    ]_vars

\* C26 witness: testRAGSearch has returned documents and a context after
\* two queries' worth of retrieval over a table that holds documents.
C26_Witness ==
  /\ app.fn = "testRAGSearch" /\ app.documents # <<>> /\ app.context # <<>>
  /\ store # {}
  /\ \E c \in CallIds : calls[c].entry = "searchDocuments" /\ Done(c) /\ Len(calls[c].issued) = 2

\* The candidates the store may answer the primary query of a call alone
\* on an instance of scope org with.
SoloCandidates(org, query, limit) ==
  storeAnswers(store, primaryQuery(org, extractKeywords(query), limit))

\* What a call of retrieveRelevantDocuments(query, limit) may return when it
\* runs alone on an instance of scope org: nothing without keywords or on a
\* failure; the best of the scored candidates; with no candidate, what the
\* store answers the fallback's query with.
SoloResults(org, query, limit) ==
  LET keywords == extractKeywords(query)
      candidates == SoloCandidates(org, query, limit)
      fallback == fallbackQueries(org, query, limit)
  IN IF keywords = <<>> THEN {<<>>}
     ELSE {<<>>}
          \cup {sliceTo(scoreDocumentRelevance(f, keywords, query), limit) :
                  f \in candidates \ {<<>>}}
          \cup (IF <<>> \in candidates
                THEN UNION {storeAnswers(store, fallback[i]) : i \in DOMAIN fallback}
                ELSE {})

\* C27: of two calls of retrieveRelevantDocuments in flight together on one
\* instance, over a table and a scope that do not change, each returns what
\* a call with its query and limit may return alone, computed from the
\* keywords of its own query and from candidates of its own primary query.
C27_NoInterference ==
  \A c \in CallIds :
    Done(c) =>
      /\ calls[c].status = "returned"
      /\ calls[c].result \in
           SoloResults(currentOrganizationId, calls[c].query, calls[c].limit)
      /\ calls[c].keywords = extractKeywords(calls[c].query)
      /\ calls[c].fetched # <<>> =>
           /\ calls[c].fetched \in
                SoloCandidates(currentOrganizationId, calls[c].query, calls[c].limit)
           /\ calls[c].result =
                sliceTo(scoreDocumentRelevance(calls[c].fetched, extractKeywords(calls[c].query),
                                               calls[c].query), calls[c].limit)

\* C27 witness: two calls with different queries were in flight together and
\* both have returned documents, not the same ones; one by scoring, the
\* other by the fallback.
C27_Witness ==
  /\ \A c \in CallIds : Done(c) /\ calls[c].result # <<>>
  /\ calls[1].query # calls[2].query
  /\ calls[1].result # calls[2].result
  /\ calls[1].path = "scored" /\ calls[2].path \in {"words", "recent"}

\* The scope is none: null, or the empty id.
NoTenant(scope) == scope = Null \/ scope = ""

\* The document passes the conditions of the query other than the tenant's.
PassesConditions(d, q) ==
  d.is_active /\ (q.hasOr => \E k \in q.or : conditionHolds(d, k))

\* C28: a query built while the scope is none selects among the active
\* documents of every organization and of none; a query built while the
\* scope is an organization selects among the active documents of that
\* organization only. So a call under no scope returns only active
\* documents, of whatever organization.
C28_TenantFilterIffScoped ==
  \A c \in CallIds :
    /\ \A i \in DOMAIN calls[c].issued :
         LET q == calls[c].issued[i]
             scope == calls[c].scopes[i]
         IN matchingRows(store, q) =
              {d \in store : /\ PassesConditions(d, q)
                             /\ ~NoTenant(scope) => d.organization_id = scope}
    /\ Done(c) => \A d \in ResultDocs(c) : d.is_active

\* C28 witness: a call made after setOrganizationContext("") or on an
\* instance constructed without a scope has returned, at once, a document of
\* organization A, one of organization B and one of no organization.
C28_Witness ==
  \E c \in CallIds :
    /\ Done(c) /\ \A i \in DOMAIN calls[c].scopes : NoTenant(calls[c].scopes[i])
    /\ {d.organization_id : d \in ResultDocs(c)} = {"A", "B", Null}

\* The users promoted: is_admin holds in one of their metadata.
Promoted == app.rawAdmin \cup app.metaAdmin

\* C29: the set-super-admin handler promotes its caller only while the
\* caller is the only user, the moment the grant is written included: every
\* grant written was written while no other user existed, at most one user
\* is promoted, and a request answered 403 wrote nothing.
C29_PromotionOnlyOfSoleUser ==
  app.fn = "superAdmin" =>
    /\ \A r \in RequestIds :
         app.requests[r].wrote => app.requests[r].usersAtGrant = {app.requests[r].caller}
    /\ Cardinality(Promoted) <= 1
    /\ \A r \in RequestIds : app.requests[r].status = 403 => ~app.requests[r].wrote

\* C30: loadUserOrganizations never runs concurrently with itself. A call
\* made while a load is in progress issues no query and changes no
\* organization state; at most one load is in progress at a time; and when
\* no load is in progress loadingOrganizations is false.
C30_NoConcurrentLoad ==
  app.fn = "auth" =>
    /\ \A l \in LoadIds :
         app.loads[l].overlapped => ~app.loads[l].queried /\ ~app.loads[l].changed
    /\ Cardinality({l \in LoadIds : inProgress(app.loads[l])}) <= 1
    /\ (\A l \in LoadIds : ~inProgress(app.loads[l])) => ~app.loadingOrganizations

=============================================================================
